---- MODULE Spec2Model ----
(***************************************************************************)
(* Model of zeta_reason's progress tracker (backend/zeta_reason/progress.py)*)
(* and of the HTTP layer that drives it (backend/zeta_reason/main.py,       *)
(* backend/zeta_reason/evaluator/pipeline.py).                              *)
(*                                                                          *)
(* The tracker's coroutines run on one asyncio event loop.  An action of    *)
(* this model is one run-to-suspension segment of one coroutine: from the   *)
(* point where the loop resumes it to the next await that really suspends   *)
(* (waiting for the asyncio.Lock, a websocket send, the worker thread that  *)
(* runs generate, the cleanup sleep).  The loop's ready queue and the       *)
(* lock's waiter queue are FIFO, as in asyncio.                             *)
(*                                                                          *)
(* Optional[X] values are sequences of length 0 (None) or 1.  Percentages   *)
(* are kept in tenths (round(x, 1) has one decimal): 405 stands for 40.5.   *)
(* The timestamp of a ProgressUpdate is left out: no operation reads it.     *)
(***************************************************************************)
EXTENDS Integers, Sequences, FiniteSets, TLC

VARIABLES
    progress_state,   \* self._progress_state: dict run_id -> ProgressUpdate
    websockets,       \* self._websockets: dict run_id -> list of WebSocket
    lockHolder,       \* self._lock: the task inside "async with", 0 when free
    lockWaiters,      \* self._lock: the tasks waiting in acquire(), FIFO
    tasks,            \* the coroutines of the event loop, by slot
    ready,            \* the event loop's ready queue (slots), FIFO
    recv,             \* per websocket: the messages its send_json delivered
    alive,            \* per websocket: FALSE once a send to it has failed
    conn,             \* per websocket: position of its /ws/progress handler
    uuidCount,        \* number of uuid4() values drawn so far
    calls,            \* number of tracker calls issued by the callers so far
    req,              \* the HTTP request being served by evaluate/compare
    timer,            \* the asyncio.sleep of _cleanup_run_later
    threads,          \* the calls made from threads other than the loop's
    sync_lock,        \* self._sync_lock: the thread inside "with", "free" if none
    pipe,             \* one call of evaluate_model_on_dataset / compare_models
    metric            \* one call of a function of metrics/core.py: arguments, result

vars == <<progress_state, websockets, lockHolder, lockWaiters, tasks, ready,
          recv, alive, conn, uuidCount, calls, req, timer, threads, sync_lock, pipe,
          metric>>

-----------------------------------------------------------------------------
(* Bounds of the model.                                                    *)

\* task slots of the event loop
MaxTasks == 3
\* tracker calls the callers issue in one behaviour, without subscribers
MaxCalls == 3
\* tracker calls the callers issue in one behaviour, with subscribers
MaxBroadcastCalls == 2
\* uuid4() draws in one behaviour
MaxUuid == 1
\* largest completed/total count a caller passes
MaxCount == 2
\* tasks of the dataset of an HTTP request
MaxDataset == 2
\* models of a /compare request
MaxModels == 2
\* largest count in the arithmetic of update_progress
MaxTotal == 10
\* longest list of answers, targets or task results given to a metric
MaxResults == 2
\* longest list of latencies given to latency_p95
MaxLatencies == 20

Subs == {"s1", "s2"}
\* the websocket clients where one is enough
HttpSubs == {"s1"}
ClientIds == {<<"client", 1>>}
\* a run id a client can send that Python takes for false: the empty string
EmptyId == <<"client", 0>>
Messages == {"m1"}
Slots == 1..MaxTasks

\* str(uuid.uuid4()): a value that names no run yet
uuid4 == <<"uuid", uuidCount + 1>>

NoRun == <<"none", 0>>

-----------------------------------------------------------------------------
(* ProgressUpdate and the arithmetic of update_progress.                   *)

ProgressUpdate(run_id, completed_tasks, total_tasks, percentage, status, message) ==
    [run_id |-> run_id, completed_tasks |-> completed_tasks,
     total_tasks |-> total_tasks, percentage |-> percentage,
     status |-> status, message |-> message]

NoUpdate == ProgressUpdate(NoRun, 0, 0, 0, "-", <<>>)

\* round(x, 1) of x = num/den * 100, in tenths: round-half-even of 1000*num/den
round1(num, den) ==
    LET q == (1000 * num) \div den
        r == (1000 * num) % den
    IN  IF 2 * r < den THEN q
        ELSE IF 2 * r > den THEN q + 1
        ELSE IF q % 2 = 0 THEN q ELSE q + 1

\* a percentage cut off after the first decimal instead of rounded
percentage_truncated(completed_tasks, total_tasks) ==
    IF total_tasks > 0 THEN (1000 * completed_tasks) \div total_tasks ELSE 0

\* percentage = (completed_tasks / total_tasks * 100) if total_tasks > 0 else 0
percentage_of(completed_tasks, total_tasks) ==
    IF total_tasks > 0 THEN round1(completed_tasks, total_tasks) ELSE 0

\* the update update_progress builds
running_update(current, run_id, completed_tasks, total_opt) ==
    LET total_tasks == IF total_opt = <<>> THEN current.total_tasks ELSE total_opt[1]
    IN  ProgressUpdate(run_id, completed_tasks, total_tasks,
                       percentage_of(completed_tasks, total_tasks), "running", <<>>)

\* complete_run that keeps the completed count last reported
done_update_keeps_count(current, run_id, message) ==
    ProgressUpdate(run_id, current.completed_tasks, current.total_tasks, 1000,
                   "done", message)

\* the update complete_run builds
done_update(current, run_id, message) ==
    ProgressUpdate(run_id, current.total_tasks, current.total_tasks, 1000,
                   "done", message)

\* error_run that starts from a fresh state instead of the current one
error_update_reset(current, run_id, error_message) ==
    ProgressUpdate(run_id, 0, current.total_tasks, 0, "error", <<error_message>>)

\* the update error_run builds
error_update(current, run_id, error_message) ==
    ProgressUpdate(run_id, current.completed_tasks, current.total_tasks,
                   current.percentage, "error", <<error_message>>)

\* get_progress: self._progress_state.get(run_id); <<>> is None
get_progress(run_id) ==
    IF run_id \in DOMAIN progress_state THEN <<progress_state[run_id]>> ELSE <<>>

-----------------------------------------------------------------------------
(* Lists.                                                                  *)

RECURSIVE list_remove(_, _)
\* list.remove(x): drops the first occurrence; the caller catches ValueError
list_remove(lst, x) ==
    IF lst = <<>> THEN <<>>
    ELSE IF Head(lst) = x THEN Tail(lst)
    ELSE <<Head(lst)>> \o list_remove(Tail(lst), x)

RECURSIVE purge(_, _)
\* for ws in disconnected: self._websockets[run_id].remove(ws)
purge(lst, disconnected) ==
    IF disconnected = <<>> THEN lst
    ELSE purge(list_remove(lst, Head(disconnected)), Tail(disconnected))

Range(s) == {s[i] : i \in 1..Len(s)}

-----------------------------------------------------------------------------
(* The event loop: tasks, the ready queue and the asyncio.Lock.            *)

Idle ==
    [op |-> "-", pc |-> "idle", run |-> NoRun, sub |-> "-", c |-> 0, t |-> <<>>,
     msg |-> <<>>, upd |-> NoUpdate, lst |-> <<>>, idx |-> 0, disc |-> <<>>,
     res |-> "-", raised |-> "-", cont |-> "-"]

Free(k) == tasks[k].pc \in {"idle", "done"}

HasFreeSlot == \E k \in Slots : Free(k)

FreeSlot == CHOOSE k \in Slots : Free(k) /\ \A j \in Slots : Free(j) => k <= j

\* a scheduler that runs the callback scheduled last first
call_soon_lifo(queue, k) == <<k>> \o queue

\* loop.call_soon: callbacks run in the order in which they were scheduled
call_soon(queue, k) == Append(queue, k)

\* asyncio.Lock.acquire when the lock is taken: wait behind the earlier waiters
lock_enqueue(waiters, k) == Append(waiters, k)

\* the record of a coroutine that has returned (or raised)
Finished(tk, raised) ==
    [Idle EXCEPT !.pc = "done", !.raised = raised]

\* Task k, the head of the ready queue, ends its segment as record me.  With rel
\* it leaves "async with self._lock": the lock goes to the first waiter, which
\* is made ready.
Commit(k, me, rel) ==
    IF rel /\ lockWaiters # <<>>
    THEN LET h == Head(lockWaiters)
         IN  /\ tasks' = [tasks EXCEPT ![k] = me, ![h] = [@ EXCEPT !.pc = "granted"]]
             /\ lockHolder' = h
             /\ lockWaiters' = Tail(lockWaiters)
             /\ ready' = call_soon(Tail(ready), h)
    ELSE /\ tasks' = [tasks EXCEPT ![k] = me]
         /\ lockHolder' = IF rel THEN 0 ELSE lockHolder
         /\ lockWaiters' = lockWaiters
         /\ ready' = Tail(ready)

\* "async with self._lock" when the lock is taken: the coroutine suspends
WaitForLock(k) ==
    /\ tasks' = [tasks EXCEPT ![k] = [@ EXCEPT !.pc = "wait_lock"]]
    /\ lockWaiters' = lock_enqueue(lockWaiters, k)
    /\ ready' = Tail(ready)
    /\ UNCHANGED <<lockHolder, progress_state, websockets>>

\* generate called in the coroutine itself
generate_on_loop == FALSE

\* "await asyncio.to_thread(model_runner.generate, prompt)": generate runs in
\* a worker thread and the coroutine is suspended until it is over
generate_off_loop == TRUE

\* the loop's thread is inside a blocking call: no callback of the loop runs
LoopHeld == ~generate_off_loop /\ \E h \in Slots : tasks[h].pc = "generate"

\* Task k is the running coroutine and is about to run the body of op under
\* the lock: either it just entered "async with" with the lock free, or the
\* lock was handed to it.
Running(k, op) ==
    /\ ready # <<>>
    /\ Head(ready) = k
    /\ tasks[k].op = op
    /\ ~LoopHeld

Enters(k) ==
    \/ tasks[k].pc = "start" /\ lockHolder = 0
    \/ tasks[k].pc = "granted"

Blocked(k) == tasks[k].pc = "start" /\ lockHolder # 0

\* what Commit leaves the lock holder when k holds the lock on
Hold(k, me) ==
    /\ tasks' = [tasks EXCEPT ![k] = me]
    /\ lockHolder' = k
    /\ lockWaiters' = lockWaiters
    /\ ready' = Tail(ready)

-----------------------------------------------------------------------------
(* _broadcast.                                                             *)

\* a pass that serves the first subscriber of the list only
broadcast_targets_first(ws, run_id) ==
    IF ws[run_id] = <<>> THEN <<>> ELSE <<ws[run_id][1]>>

\* the list the for loop of _broadcast iterates: self._websockets[run_id]
broadcast_targets(ws, run_id) == ws[run_id]

\* a pass that gives up at the first failed send
stop_after_failure == FALSE

\* after a send has failed: is the rest of the list still served?
continue_after_failure == TRUE

\* _broadcast up to its first await: k has stored update for run_id
broadcast_start(k, run_id, update) ==
    IF run_id \notin DOMAIN websockets \/ broadcast_targets(websockets, run_id) = <<>>
    THEN /\ Commit(k, Finished(tasks[k], "-"), TRUE)
         /\ UNCHANGED websockets
    ELSE /\ Hold(k, [tasks[k] EXCEPT !.pc = "send", !.upd = update,
                                     !.lst = broadcast_targets(websockets, run_id),
                                     !.idx = 1, !.disc = <<>>, !.res = "-"])
         /\ UNCHANGED websockets

\* what the purge loop does to the registry entry
purged(lst, disconnected) == purge(lst, disconnected)

\* _broadcast resumed after "await ws.send_json" returned or raised
broadcast_resume(k) ==
    LET tk == tasks[k]
        disconnected == IF tk.res = "fail" THEN Append(tk.disc, tk.lst[tk.idx])
                        ELSE tk.disc
        more == tk.idx < Len(tk.lst) /\ (tk.res = "ok" \/ continue_after_failure)
    IN  IF more
        THEN /\ Hold(k, [tk EXCEPT !.pc = "send", !.idx = tk.idx + 1,
                                   !.disc = disconnected, !.res = "-"])
             /\ UNCHANGED websockets
        ELSE IF disconnected = <<>>
        THEN /\ Commit(k, Finished(tk, "-"), TRUE)
             /\ UNCHANGED websockets
        ELSE IF tk.run \notin DOMAIN websockets
        THEN \* self._websockets[run_id] raises KeyError, which
             \* "except ValueError" does not catch
             /\ Commit(k, Finished(tk, "KeyError"), TRUE)
             /\ UNCHANGED websockets
        ELSE /\ Commit(k, Finished(tk, "-"), TRUE)
             /\ websockets' = [websockets EXCEPT
                                  ![tk.run] = purged(@, disconnected)]

-----------------------------------------------------------------------------
(* What the caller of an awaited tracker operation does when it returns.   *)
(* A task spawned by create_task (cont = "-") simply ends.  The /evaluate   *)
(* and /compare handlers await complete_run and error_run inline:           *)
(* after complete_run they schedule _cleanup_run_later and return; after    *)
(* error_run they re-raise and schedule nothing.                            *)

\* does the handler schedule _cleanup_run_later after op has returned?
schedules_cleanup(op) == op = "complete"

AfterOp(k) ==
    IF tasks[k].cont = "handler" /\ tasks'[k].pc = "done"
    THEN IF tasks'[k].raised = "-"
         THEN /\ req' = [req EXCEPT !.phase = IF tasks[k].op = "complete"
                                              THEN "returned" ELSE "failed"]
              /\ timer' = IF schedules_cleanup(tasks[k].op) THEN "armed" ELSE timer
         ELSE \* complete_run raised: "except Exception" awaits error_run;
              \* error_run raised: the exception leaves the handler
              /\ req' = [req EXCEPT !.phase = "failed"]
              /\ timer' = timer
    ELSE UNCHANGED <<req, timer>>

-----------------------------------------------------------------------------
(* The coroutines of ProgressTracker.                                      *)

\* an operation without the guard: self._progress_state[run_id] raises
unknown_run_raises(tk) == Finished(tk, "KeyError")

\* "if run_id not in self._progress_state: return"
unknown_run(tk) == Finished(tk, "-")

update_progress(k) ==
    /\ Running(k, "update")
    /\ \/ /\ Blocked(k)
          /\ WaitForLock(k)
       \/ /\ Enters(k)
          /\ IF tasks[k].run \notin DOMAIN progress_state
             THEN /\ Commit(k, unknown_run(tasks[k]), TRUE)
                  /\ UNCHANGED <<progress_state, websockets>>
             ELSE LET update == running_update(progress_state[tasks[k].run],
                                               tasks[k].run, tasks[k].c, tasks[k].t)
                  IN  /\ progress_state' = [progress_state EXCEPT ![tasks[k].run] = update]
                      /\ broadcast_start(k, tasks[k].run, update)
       \/ /\ tasks[k].pc = "sent"
          /\ broadcast_resume(k)
          /\ UNCHANGED progress_state
    /\ AfterOp(k)
    /\ UNCHANGED <<recv, alive, conn, uuidCount, calls>>
    /\ UNCHANGED <<threads, sync_lock, pipe, metric>>

complete_run(k) ==
    /\ Running(k, "complete")
    /\ \/ /\ Blocked(k)
          /\ WaitForLock(k)
       \/ /\ Enters(k)
          /\ IF tasks[k].run \notin DOMAIN progress_state
             THEN /\ Commit(k, unknown_run(tasks[k]), TRUE)
                  /\ UNCHANGED <<progress_state, websockets>>
             ELSE LET update == done_update(progress_state[tasks[k].run],
                                            tasks[k].run, tasks[k].msg)
                  IN  /\ progress_state' = [progress_state EXCEPT ![tasks[k].run] = update]
                      /\ broadcast_start(k, tasks[k].run, update)
       \/ /\ tasks[k].pc = "sent"
          /\ broadcast_resume(k)
          /\ UNCHANGED progress_state
    /\ AfterOp(k)
    /\ UNCHANGED <<recv, alive, conn, uuidCount, calls>>
    /\ UNCHANGED <<threads, sync_lock, pipe, metric>>

error_run(k) ==
    /\ Running(k, "error")
    /\ \/ /\ Blocked(k)
          /\ WaitForLock(k)
       \/ /\ Enters(k)
          /\ IF tasks[k].run \notin DOMAIN progress_state
             THEN /\ Commit(k, unknown_run(tasks[k]), TRUE)
                  /\ UNCHANGED <<progress_state, websockets>>
             ELSE LET update == error_update(progress_state[tasks[k].run],
                                             tasks[k].run, tasks[k].msg[1])
                  IN  /\ progress_state' = [progress_state EXCEPT ![tasks[k].run] = update]
                      /\ broadcast_start(k, tasks[k].run, update)
       \/ /\ tasks[k].pc = "sent"
          /\ broadcast_resume(k)
          /\ UNCHANGED progress_state
    /\ AfterOp(k)
    /\ UNCHANGED <<recv, alive, conn, uuidCount, calls>>
    /\ UNCHANGED <<threads, sync_lock, pipe, metric>>

\* register_websocket without the replay
no_replay(ps, run_id) == <<>>

\* what register_websocket sends the new subscriber: the current state, if any
replay_state(ps, run_id) == IF run_id \in DOMAIN ps THEN <<ps[run_id]>> ELSE <<>>

register_websocket(k) ==
    /\ Running(k, "register")
    /\ \/ /\ Blocked(k)
          /\ WaitForLock(k)
       \/ /\ Enters(k)
          /\ websockets' =
                IF tasks[k].run \notin DOMAIN websockets
                THEN (tasks[k].run :> <<tasks[k].sub>>) @@ websockets
                ELSE [websockets EXCEPT ![tasks[k].run] = Append(@, tasks[k].sub)]
          /\ IF replay_state(progress_state, tasks[k].run) # <<>>
             THEN Hold(k, [tasks[k] EXCEPT
                              !.pc = "send",
                              !.upd = replay_state(progress_state, tasks[k].run)[1],
                              !.lst = <<tasks[k].sub>>, !.idx = 1, !.res = "-"])
             ELSE Commit(k, Finished(tasks[k], "-"), TRUE)
          /\ UNCHANGED progress_state
       \/ /\ tasks[k].pc = "sent"
          \* a failed send_json raises out of register_websocket; "async with"
          \* releases the lock either way
          /\ Commit(k, Finished(tasks[k], IF tasks[k].res = "fail"
                                          THEN "SendError" ELSE "-"), TRUE)
          /\ UNCHANGED <<progress_state, websockets>>
    /\ conn' = IF tasks'[k].pc = "done"
               THEN [conn EXCEPT ![tasks[k].sub].st = "registered"] ELSE conn
    /\ UNCHANGED <<recv, alive, uuidCount, calls, req, timer>>
    /\ UNCHANGED <<threads, sync_lock, pipe, metric>>

unregister_websocket(k) ==
    /\ Running(k, "unregister")
    /\ \/ /\ Blocked(k)
          /\ WaitForLock(k)
          /\ UNCHANGED conn
       \/ /\ Enters(k)
          /\ websockets' =
                IF tasks[k].run \in DOMAIN websockets
                THEN [websockets EXCEPT ![tasks[k].run] = list_remove(@, tasks[k].sub)]
                ELSE websockets
          /\ Commit(k, Finished(tasks[k], "-"), TRUE)
          /\ conn' = [conn EXCEPT ![tasks[k].sub].st = "closed"]
          /\ UNCHANGED progress_state
    /\ UNCHANGED <<recv, alive, uuidCount, calls, req, timer>>
    /\ UNCHANGED <<threads, sync_lock, pipe, metric>>

\* "await ws.send_json(...)" of task k returns (ok) or raises (fail).  A
\* delivered message is appended to what the websocket has received; a
\* websocket whose send has failed is closed and every later send fails.
SendReturns(k, res) ==
    /\ tasks[k].pc = "send"
    /\ LET s == tasks[k].lst[tasks[k].idx]
       IN  /\ res = "ok" => alive[s]
           /\ recv' = IF res = "ok" THEN [recv EXCEPT ![s] = Append(@, tasks[k].upd)]
                      ELSE recv
           /\ alive' = IF res = "fail" THEN [alive EXCEPT ![s] = FALSE] ELSE alive
    /\ tasks' = [tasks EXCEPT ![k] = [@ EXCEPT !.pc = "sent", !.res = res]]
    /\ ready' = call_soon(ready, k)
    /\ UNCHANGED <<progress_state, websockets, lockHolder, lockWaiters, conn,
                   uuidCount, calls, req, timer>>
    /\ UNCHANGED <<threads, sync_lock, pipe, metric>>

-----------------------------------------------------------------------------
(* The synchronous operations, under self._sync_lock.                      *)

\* "run_id or ...": None and the empty string are false
falsy(run_id_opt) == run_id_opt = <<>> \/ run_id_opt[1] = EmptyId

\* create_run that never takes the caller's id
new_run_id_ignores_supplied(ps, run_id_opt) == uuid4

\* create_run without the collision check
new_run_id_unchecked(ps, run_id_opt) ==
    IF falsy(run_id_opt) THEN uuid4 ELSE run_id_opt[1]

\* the id create_run registers: run_id or uuid4(), regenerated on collision
new_run_id(ps, run_id_opt) ==
    IF falsy(run_id_opt) THEN uuid4
    ELSE IF run_id_opt[1] \in DOMAIN ps THEN uuid4
    ELSE run_id_opt[1]

\* the registry after create_run(total_tasks, run_id)
create_run_state(ps, total_tasks, run_id_opt) ==
    (new_run_id(ps, run_id_opt) :>
        ProgressUpdate(new_run_id(ps, run_id_opt), 0, total_tasks, 0, "running", <<>>))
    @@ ps

create_run_sockets(ws, run_id) == (run_id :> <<>>) @@ ws

\* cleanup_run that clears the whole registry
cleanup_state_all(ps, run_id) == [r \in {} |-> NoUpdate]

\* the registry after cleanup_run(run_id)
cleanup_state(ps, run_id) == [r \in DOMAIN ps \ {run_id} |-> ps[r]]

\* cleanup_run that forgets the subscriber lists
keep_sockets(ws, run_id) == ws

cleanup_sockets(ws, run_id) == [r \in DOMAIN ws \ {run_id} |-> ws[r]]

UsesUuid(run_id_opt) == new_run_id(progress_state, run_id_opt) = uuid4

create_run(total_tasks, run_id_opt) ==
    /\ UsesUuid(run_id_opt) => uuidCount < MaxUuid
    /\ progress_state' = create_run_state(progress_state, total_tasks, run_id_opt)
    /\ websockets' = create_run_sockets(websockets, new_run_id(progress_state, run_id_opt))
    /\ uuidCount' = IF UsesUuid(run_id_opt) THEN uuidCount + 1 ELSE uuidCount
    /\ calls' = calls + 1
    /\ UNCHANGED <<lockHolder, lockWaiters, tasks, ready, recv, alive, conn, req, timer>>
    /\ UNCHANGED <<threads, sync_lock, pipe, metric>>

cleanup_run(run_id) ==
    /\ progress_state' = cleanup_state(progress_state, run_id)
    /\ websockets' = cleanup_sockets(websockets, run_id)
    /\ UNCHANGED <<lockHolder, lockWaiters, tasks, ready, recv, alive, conn,
                   uuidCount, calls, req, timer>>
    /\ UNCHANGED <<threads, sync_lock, pipe, metric>>

-----------------------------------------------------------------------------
(* The callers of the tracker's interface.                                 *)

\* run ids a caller can name: the client-chosen ones and the uuids drawn so far
RunIds == ClientIds \cup {<<"uuid", i>> : i \in 1..uuidCount}

Counts == 0..MaxCount

OptCounts == {<<>>} \cup {<<n>> : n \in Counts}

OptMessages == {<<>>} \cup {<<m>> : m \in Messages}

\* asyncio.create_task(coro): the coroutine takes a slot and is made ready
Spawn(task) ==
    /\ HasFreeSlot
    /\ tasks' = [tasks EXCEPT ![FreeSlot] = task]
    /\ ready' = call_soon(ready, FreeSlot)

Call(task) ==
    /\ Spawn(task)
    /\ calls' = calls + 1
    /\ UNCHANGED <<progress_state, websockets, lockHolder, lockWaiters, recv, alive,
                   conn, uuidCount, req, timer>>
    /\ UNCHANGED <<threads, sync_lock, pipe, metric>>

CallUpdate(run_id, completed_tasks, total_opt) ==
    Call([Idle EXCEPT !.op = "update", !.pc = "start", !.run = run_id,
                      !.c = completed_tasks, !.t = total_opt])

CallComplete(run_id, message) ==
    Call([Idle EXCEPT !.op = "complete", !.pc = "start", !.run = run_id,
                      !.msg = message])

CallError(run_id, error_message) ==
    Call([Idle EXCEPT !.op = "error", !.pc = "start", !.run = run_id,
                      !.msg = <<error_message>>])

\* progress_websocket: a client connects to /ws/progress?run_id=...; its
\* handler awaits register_websocket
Connect(s, run_id) ==
    /\ conn[s].st = "new"
    /\ Spawn([Idle EXCEPT !.op = "register", !.pc = "start", !.run = run_id, !.sub = s])
    /\ conn' = [conn EXCEPT ![s] = [st |-> "registering", run |-> run_id]]
    /\ UNCHANGED <<progress_state, websockets, lockHolder, lockWaiters, recv, alive,
                   uuidCount, calls, req, timer>>
    /\ UNCHANGED <<threads, sync_lock, pipe, metric>>

\* progress_websocket: the client has gone; the handler's finally clause
\* awaits unregister_websocket
Disconnect(s) ==
    /\ conn[s].st = "registered"
    /\ Spawn([Idle EXCEPT !.op = "unregister", !.pc = "start",
                          !.run = conn[s].run, !.sub = s])
    /\ conn' = [conn EXCEPT ![s].st = "unregistering"]
    /\ UNCHANGED <<progress_state, websockets, lockHolder, lockWaiters, recv, alive,
                   uuidCount, calls, req, timer>>
    /\ UNCHANGED <<threads, sync_lock, pipe, metric>>

-----------------------------------------------------------------------------
(* Calls made from threads other than the event loop's.  create_run runs   *)
(* under "with self._sync_lock" (a threading.Lock); between two statements  *)
(* of a thread any other thread may run.                                   *)

Threads == {"t1", "t2"}

\* what a client can pass as run_id
SuppliedIds == ClientIds \cup {EmptyId}

NoCall ==
    [op |-> "-", pc |-> "idle", total |-> 0, run_id |-> <<>>, rid |-> NoRun,
     c |-> 0, waited |-> FALSE, ret |-> <<>>, raised |-> "-"]

\* a thread is between two calls
AtRest(T) == threads[T].pc \in {"idle", "returned"}

\* create_run without the lock: every thread walks straight in
sync_lock_ignored(holder) == TRUE

\* threading.Lock: can a thread enter "with self._sync_lock" now?
sync_lock_free(holder) == holder = "free"

\* the entry stored at line 75, under the id chosen at lines 64-67
store_initial(ps, run_id, total_tasks) ==
    (run_id :> ProgressUpdate(run_id, 0, total_tasks, 0, "running", <<>>)) @@ ps

\* a thread calls create_run(total_tasks, run_id)
ThreadCreateRun(T, total_tasks, run_id_opt) ==
    /\ AtRest(T)
    /\ threads' = [threads EXCEPT ![T] = [NoCall EXCEPT !.op = "create_run", !.pc = "acquire",
                                                         !.total = total_tasks,
                                                         !.run_id = run_id_opt]]
    /\ calls' = calls + 1
    /\ UNCHANGED <<progress_state, websockets, lockHolder, lockWaiters, tasks, ready,
                   recv, alive, conn, uuidCount, req, timer, sync_lock, pipe, metric>>

\* "with self._sync_lock": the thread enters, or blocks until the lock is free
sync_acquire(T) ==
    /\ threads[T].pc \in {"acquire", "blocked"}
    /\ IF sync_lock_free(sync_lock)
       THEN /\ sync_lock' = T
            /\ threads' = [threads EXCEPT ![T].pc = IF threads[T].op = "cleanup_run"
                                                    THEN "del_sockets" ELSE "choose"]
       ELSE /\ threads[T].pc = "acquire"
            /\ threads' = [threads EXCEPT ![T].pc = "blocked", ![T].waited = TRUE]
            /\ UNCHANGED sync_lock
    /\ UNCHANGED <<progress_state, websockets, lockHolder, lockWaiters, tasks, ready,
                   recv, alive, conn, uuidCount, calls, req, timer, pipe, metric>>

\* lines 64-67: run_id = run_id or uuid4(); regenerated if already present
create_run_choose(T) ==
    /\ threads[T].pc = "choose"
    /\ threads' = [threads EXCEPT ![T].pc = "store_state",
                                  ![T].rid = new_run_id(progress_state, threads[T].run_id)]
    /\ uuidCount' = IF UsesUuid(threads[T].run_id) THEN uuidCount + 1 ELSE uuidCount
    /\ UNCHANGED <<progress_state, websockets, lockHolder, lockWaiters, tasks, ready,
                   recv, alive, conn, calls, req, timer, sync_lock, pipe, metric>>

\* lines 68-75: self._progress_state[run_id] = initial_update
create_run_store_state(T) ==
    /\ threads[T].pc = "store_state"
    /\ progress_state' = store_initial(progress_state, threads[T].rid, threads[T].total)
    /\ threads' = [threads EXCEPT ![T].pc = "store_sockets"]
    /\ UNCHANGED <<websockets, lockHolder, lockWaiters, tasks, ready, recv, alive, conn,
                   uuidCount, calls, req, timer, sync_lock, pipe, metric>>

\* line 76: self._websockets[run_id] = []
create_run_store_sockets(T) ==
    /\ threads[T].pc = "store_sockets"
    /\ websockets' = create_run_sockets(websockets, threads[T].rid)
    /\ threads' = [threads EXCEPT ![T].pc = "return"]
    /\ UNCHANGED <<progress_state, lockHolder, lockWaiters, tasks, ready, recv, alive,
                   conn, uuidCount, calls, req, timer, sync_lock, pipe, metric>>

\* line 77: return run_id, leaving "with self._sync_lock"
create_run_return(T) ==
    /\ threads[T].pc = "return"
    /\ threads' = [threads EXCEPT ![T].pc = "returned", ![T].ret = <<threads[T].rid>>]
    /\ sync_lock' = "free"
    /\ UNCHANGED <<progress_state, websockets, lockHolder, lockWaiters, tasks, ready,
                   recv, alive, conn, uuidCount, calls, req, timer, pipe, metric>>

\* a thread other than the loop's calls cleanup_run(run_id)
ThreadCleanupRun(T, run_id) ==
    /\ AtRest(T)
    /\ threads' = [threads EXCEPT ![T] = [NoCall EXCEPT !.op = "cleanup_run",
                                                         !.pc = "acquire", !.rid = run_id]]
    /\ UNCHANGED <<progress_state, websockets, lockHolder, lockWaiters, tasks, ready,
                   recv, alive, conn, uuidCount, calls, req, timer, sync_lock, pipe,
                   metric>>

\* "if run_id in self._websockets: del self._websockets[run_id]"
cleanup_run_del_sockets(T) ==
    /\ threads[T].pc = "del_sockets"
    /\ websockets' = cleanup_sockets(websockets, threads[T].rid)
    /\ threads' = [threads EXCEPT ![T].pc = "del_state"]
    /\ UNCHANGED <<progress_state, lockHolder, lockWaiters, tasks, ready, recv, alive,
                   conn, uuidCount, calls, req, timer, sync_lock, pipe, metric>>

\* "if run_id in self._progress_state: del self._progress_state[run_id]"
cleanup_run_del_state(T) ==
    /\ threads[T].pc = "del_state"
    /\ progress_state' = cleanup_state(progress_state, threads[T].rid)
    /\ threads' = [threads EXCEPT ![T].pc = "leave"]
    /\ UNCHANGED <<websockets, lockHolder, lockWaiters, tasks, ready, recv, alive, conn,
                   uuidCount, calls, req, timer, sync_lock, pipe, metric>>

\* cleanup_run returns, leaving "with self._sync_lock"
cleanup_run_return(T) ==
    /\ threads[T].pc = "leave"
    /\ threads' = [threads EXCEPT ![T].pc = "returned"]
    /\ sync_lock' = "free"
    /\ UNCHANGED <<progress_state, websockets, lockHolder, lockWaiters, tasks, ready,
                   recv, alive, conn, uuidCount, calls, req, timer, pipe, metric>>

-----------------------------------------------------------------------------
(* update_progress, complete_run and error_run statement by statement.  A  *)
(* thread other than the loop's runs between any two statements of the     *)
(* coroutine: the asyncio lock the coroutine holds means nothing to it.    *)
(* The coroutine stays at the head of the ready queue until it suspends or *)
(* returns.                                                                *)

\* the ProgressUpdate an operation builds from the current one
built_update(tk, current) ==
    CASE tk.op = "update" -> running_update(current, tk.run, tk.c, tk.t)
      [] tk.op = "complete" -> done_update(current, tk.run, tk.msg)
      [] tk.op = "error" -> error_update(current, tk.run, tk.msg[1])

\* "self._progress_state[run_id] = update": the key is added if it is not there
store_update(ps, run_id, update) == (run_id :> update) @@ ps

\* "async with self._lock: if run_id not in self._progress_state: return"
operation_check(k) ==
    /\ \E op \in {"update", "complete", "error"} : Running(k, op)
    /\ \/ /\ Blocked(k)
          /\ WaitForLock(k)
       \/ /\ Enters(k)
          /\ IF tasks[k].run \notin DOMAIN progress_state
             THEN Commit(k, unknown_run(tasks[k]), TRUE)
             ELSE /\ tasks' = [tasks EXCEPT ![k].pc = "checked"]
                  /\ lockHolder' = k
                  /\ UNCHANGED <<lockWaiters, ready>>
          /\ UNCHANGED <<progress_state, websockets>>
    /\ UNCHANGED <<recv, alive, conn, uuidCount, calls, req, timer>>
    /\ UNCHANGED <<threads, sync_lock, pipe, metric>>

\* "current = self._progress_state[run_id]" and the construction of update
operation_read(k) ==
    /\ \E op \in {"update", "complete", "error"} : Running(k, op)
    /\ tasks[k].pc = "checked"
    /\ IF tasks[k].run \notin DOMAIN progress_state
       THEN Commit(k, Finished(tasks[k], "KeyError"), TRUE)
       ELSE /\ tasks' = [tasks EXCEPT
                            ![k].pc = "read",
                            ![k].upd = built_update(tasks[k], progress_state[tasks[k].run])]
            /\ UNCHANGED <<lockHolder, lockWaiters, ready>>
    /\ UNCHANGED <<progress_state, websockets>>
    /\ UNCHANGED <<recv, alive, conn, uuidCount, calls, req, timer>>
    /\ UNCHANGED <<threads, sync_lock, pipe, metric>>

\* "self._progress_state[run_id] = update; await self._broadcast(run_id, update)"
operation_store(k) ==
    /\ \E op \in {"update", "complete", "error"} : Running(k, op)
    /\ tasks[k].pc = "read"
    /\ progress_state' = store_update(progress_state, tasks[k].run, tasks[k].upd)
    /\ broadcast_start(k, tasks[k].run, tasks[k].upd)
    /\ UNCHANGED <<recv, alive, conn, uuidCount, calls, req, timer>>
    /\ UNCHANGED <<threads, sync_lock, pipe, metric>>

\* a callback without the try/except: the RuntimeError reaches the caller
callback_unguarded(loop_running) == IF loop_running THEN "scheduled" ELSE "RuntimeError"

\* what the callback of get_progress_callback does.  With a running loop in
\* the calling thread create_task schedules the update; with none,
\* get_event_loop() or create_task raises RuntimeError, which is caught.
callback_outcome(loop_running) == IF loop_running THEN "scheduled" ELSE "dropped"

\* the callback of get_progress_callback(run_id) is called with
\* (completed_tasks, total_tasks), by a coroutine of the loop (ctx = "loop") or
\* by another thread
progress_callback(ctx, run_id, completed_tasks, total_tasks) ==
    /\ ctx \in Threads => AtRest(ctx)
    /\ IF callback_outcome(ctx = "loop") = "scheduled"
       THEN Spawn([Idle EXCEPT !.op = "update", !.pc = "start", !.run = run_id,
                               !.c = completed_tasks, !.t = <<total_tasks>>])
       ELSE UNCHANGED <<tasks, ready>>
    /\ threads' = IF ctx \in Threads
                  THEN [threads EXCEPT ![ctx] =
                           [NoCall EXCEPT !.op = "callback", !.pc = "returned",
                                          !.run_id = <<run_id>>, !.c = completed_tasks,
                                          !.total = total_tasks,
                                          !.raised =
                                              IF callback_outcome(FALSE) = "dropped"
                                              THEN "-" ELSE callback_outcome(FALSE)]]
                  ELSE threads
    /\ calls' = calls + 1
    /\ UNCHANGED <<progress_state, websockets, lockHolder, lockWaiters, recv, alive,
                   conn, uuidCount, req, timer, sync_lock, pipe, metric>>

-----------------------------------------------------------------------------
(* The tracker under arbitrary callers.                                    *)

\* no call of the pipeline yet.  dataset is the list of task ids; invoked the
\* (model, task) positions generate was called for, answers what it gave
\* back, sunk the arguments the caller's progress sink was called with, log
\* the order in which generate was called, results were appended and the
\* sink was called.
NoPipeline ==
    [phase |-> "idle", kind |-> "-", dataset |-> <<>>, nrunners |-> 0, nconfigs |-> 0,
     has_sink |-> FALSE, model |-> 0, i |-> 0, completed_tasks |-> 0, gen |-> "-",
     invoked |-> <<>>, answers |-> <<>>, sunk |-> <<>>, sink_failed |-> FALSE,
     task_results |-> <<>>, results |-> <<>>, ret |-> <<>>, raised |-> "-",
     log |-> <<>>]

\* no call of a metric function yet
NoMetric == [fn |-> "-", args |-> <<>>, result |-> <<>>]

NoRequest ==
    [phase |-> "none", kind |-> "-", run_id |-> <<>>, run |-> NoRun, nmodels |-> 0,
     ntasks |-> 0, model |-> 0, i |-> 0, completed_tasks |-> 0]

Init ==
    /\ progress_state = <<>>
    /\ websockets = <<>>
    /\ lockHolder = 0
    /\ lockWaiters = <<>>
    /\ tasks = [k \in Slots |-> Idle]
    /\ ready = <<>>
    /\ recv = [s \in Subs |-> <<>>]
    /\ alive = [s \in Subs |-> TRUE]
    /\ conn = [s \in Subs |-> [st |-> "new", run |-> NoRun]]
    /\ uuidCount = 0
    /\ calls = 0
    /\ req = NoRequest
    /\ timer = "off"
    /\ threads = [T \in Threads |-> NoCall]
    /\ sync_lock = "free"
    /\ pipe = NoPipeline
    /\ metric = NoMetric

\* A caller's call or a connection that arrives while coroutines are ready
\* queues behind them; none of them creates a task, so that is the same as
\* arriving once they have run.
Quiet == ready = <<>>

\* Callers and subscribers together: the arguments are kept few, the
\* interleavings of calls, sends, connections and cleanups are all there.
Next ==
    \/ /\ calls < MaxBroadcastCalls
       /\ \E id \in {<<>>} \cup {<<r>> : r \in ClientIds} : create_run(MaxCount, id)
    \/ \E r \in RunIds : cleanup_run(r)
    \/ /\ Quiet /\ calls < MaxBroadcastCalls
       /\ \E r \in RunIds : CallUpdate(r, 1, <<>>)
    \/ /\ Quiet /\ calls < MaxBroadcastCalls
       /\ \E r \in RunIds : CallComplete(r, <<>>)
    \/ /\ Quiet /\ calls < MaxBroadcastCalls
       /\ \E r \in RunIds, m \in Messages : CallError(r, m)
    \/ Quiet /\ \E s \in Subs, r \in RunIds : Connect(s, r)
    \/ Quiet /\ \E s \in Subs : Disconnect(s)
    \/ \E k \in Slots : update_progress(k)
    \/ \E k \in Slots : complete_run(k)
    \/ \E k \in Slots : error_run(k)
    \/ \E k \in Slots : register_websocket(k)
    \/ \E k \in Slots : unregister_websocket(k)
    \/ \E k \in Slots, res \in {"ok", "fail"} : SendReturns(k, res)

Spec == Init /\ [][Next]_vars

\* Callers alone, no subscriber: every argument of every operation varies.
NextCalls ==
    \/ /\ calls < MaxCalls
       /\ \E n \in Counts, id \in {<<>>} \cup {<<r>> : r \in ClientIds} : create_run(n, id)
    \/ \E r \in RunIds : cleanup_run(r)
    \/ /\ Quiet /\ calls < MaxCalls
       /\ \E r \in RunIds, c \in Counts, t \in OptCounts : CallUpdate(r, c, t)
    \/ /\ Quiet /\ calls < MaxCalls
       /\ \E r \in RunIds, m \in OptMessages : CallComplete(r, m)
    \/ /\ Quiet /\ calls < MaxCalls
       /\ \E r \in RunIds, m \in Messages : CallError(r, m)
    \/ \E k \in Slots : update_progress(k)
    \/ \E k \in Slots : complete_run(k)
    \/ \E k \in Slots : error_run(k)

SpecCalls == Init /\ [][NextCalls]_vars

\* runs whose progress is reported through the callback of
\* get_progress_callback, by a coroutine of the loop or by another thread
NextCallback ==
    \/ /\ calls < MaxBroadcastCalls
       /\ \E n \in Counts, id \in {<<>>} \cup {<<r>> : r \in ClientIds} : create_run(n, id)
    \/ \E r \in RunIds : cleanup_run(r)
    \/ /\ calls < MaxBroadcastCalls
       /\ \E ctx \in {"loop"} \cup Threads, r \in RunIds, c \in Counts, t \in Counts :
             progress_callback(ctx, r, c, t)
    \/ \E k \in Slots : update_progress(k)

SpecCallback == Init /\ [][NextCallback]_vars

\* The arithmetic of update_progress: one run, counts up to MaxTotal.
Totals == 0..MaxTotal

NextPercent ==
    \/ /\ calls < MaxCalls
       /\ \E n \in Totals, r \in ClientIds : create_run(n, <<r>>)
    \/ /\ Quiet /\ calls < MaxCalls
       /\ \E r \in ClientIds, c \in Totals, t \in {<<>>} \cup {<<n>> : n \in Totals} :
             CallUpdate(r, c, t)
    \/ \E k \in Slots : update_progress(k)

SpecPercent == Init /\ [][NextPercent]_vars

\* Two runs side by side, each with its subscribers.
NextRuns ==
    \/ /\ calls < MaxCalls
       /\ \E r \in ClientIds : create_run(MaxCount, <<r>>)
    \/ \E r \in RunIds : cleanup_run(r)
    \/ /\ Quiet /\ calls < MaxCalls
       /\ \E r \in RunIds : CallUpdate(r, 1, <<>>)
    \/ /\ Quiet /\ calls < MaxCalls
       /\ \E r \in RunIds : CallComplete(r, <<>>)
    \/ /\ Quiet /\ calls < MaxCalls
       /\ \E r \in RunIds, m \in Messages : CallError(r, m)
    \/ Quiet /\ \E s \in Subs, r \in RunIds : Connect(s, r)
    \/ \E k \in Slots : update_progress(k)
    \/ \E k \in Slots : complete_run(k)
    \/ \E k \in Slots : error_run(k)
    \/ \E k \in Slots : register_websocket(k)
    \/ \E k \in Slots, res \in {"ok", "fail"} : SendReturns(k, res)

SpecRuns == Init /\ [][NextRuns]_vars

\* cleanup_run called from other threads while the loop runs the
\* operations of the run
NextRace ==
    \/ /\ calls < MaxCalls
       /\ \E r \in ClientIds : create_run(MaxCount, <<r>>)
    \/ /\ Quiet /\ calls < MaxCalls
       /\ \E r \in RunIds : CallUpdate(r, 1, <<>>)
    \/ /\ Quiet /\ calls < MaxCalls
       /\ \E r \in RunIds : CallComplete(r, <<>>)
    \/ /\ Quiet /\ calls < MaxCalls
       /\ \E r \in RunIds, m \in Messages : CallError(r, m)
    \/ \E k \in Slots : operation_check(k)
    \/ \E k \in Slots : operation_read(k)
    \/ \E k \in Slots : operation_store(k)
    \/ \E T \in Threads, r \in RunIds : ThreadCleanupRun(T, r)
    \/ \E T \in Threads : sync_acquire(T)
    \/ \E T \in Threads : cleanup_run_del_sockets(T)
    \/ \E T \in Threads : cleanup_run_del_state(T)
    \/ \E T \in Threads : cleanup_run_return(T)

SpecRace == Init /\ [][NextRace]_vars

\* create_run called from several threads, with clients connecting meanwhile
NextThreads ==
    \/ /\ calls < MaxBroadcastCalls
       /\ \E T \in Threads, n \in 1..MaxCount, id \in {<<>>} \cup {<<r>> : r \in SuppliedIds} :
             ThreadCreateRun(T, n, id)
    \/ \E T \in Threads : sync_acquire(T)
    \/ \E T \in Threads : create_run_choose(T)
    \/ \E T \in Threads : create_run_store_state(T)
    \/ \E T \in Threads : create_run_store_sockets(T)
    \/ \E T \in Threads : create_run_return(T)
    \/ \E s \in HttpSubs, r \in ClientIds : Connect(s, r)
    \/ \E k \in Slots : register_websocket(k)
    \/ \E k \in Slots, res \in {"ok", "fail"} : SendReturns(k, res)

SpecThreads == Init /\ [][NextThreads]_vars

-----------------------------------------------------------------------------
(* The HTTP layer: POST /evaluate and POST /compare (main.py), which run   *)
(* evaluate_model_on_dataset / compare_models (pipeline.py) with the       *)
(* tracker's progress callback as sink.                                    *)

\* a wrapper that passes the count of the current model on
global_completed_in_model(completed_tasks, ntasks, completed_in_model) ==
    completed_in_model

\* model_progress_callback of compare_models: the count reported to the sink
global_completed(completed_tasks, ntasks, completed_in_model) ==
    (completed_tasks \div ntasks) * ntasks + completed_in_model

\* the count the handler's sink is called with after task i of the current model
reported(r) ==
    IF r.kind = "compare" THEN global_completed(r.completed_tasks, r.ntasks, r.i)
    ELSE r.i

\* a total that counts the tasks of one model only
run_total_one_model(r) == r.ntasks

\* total_tasks of the run: len(tasks), or len(model_configurations) * len(tasks)
run_total(r) == r.nmodels * r.ntasks

\* a request arrives: the server starts its handler
Post(kind, nmodels, ntasks, run_id_opt) ==
    /\ req.phase = "none"
    /\ Spawn([Idle EXCEPT !.op = kind, !.pc = "start", !.cont = "handler"])
    /\ req' = [NoRequest EXCEPT !.phase = "queued", !.kind = kind, !.run_id = run_id_opt,
                                !.nmodels = nmodels, !.ntasks = ntasks]
    /\ UNCHANGED <<progress_state, websockets, lockHolder, lockWaiters, recv, alive,
                   conn, uuidCount, calls, timer>>
    /\ UNCHANGED <<threads, sync_lock, pipe, metric>>

\* the handler up to its first "await asyncio.to_thread(model_runner.generate, ...)":
\* create_run, get_progress_callback, then the first task of the first model
handler_start(k) ==
    /\ tasks[k].pc = "start"
    /\ UsesUuid(req.run_id) => uuidCount < MaxUuid
    /\ progress_state' = create_run_state(progress_state, run_total(req), req.run_id)
    /\ websockets' = create_run_sockets(websockets, new_run_id(progress_state, req.run_id))
    /\ uuidCount' = IF UsesUuid(req.run_id) THEN uuidCount + 1 ELSE uuidCount
    /\ req' = [req EXCEPT !.phase = "running",
                          !.run = new_run_id(progress_state, req.run_id),
                          !.model = 1, !.i = 1]
    /\ tasks' = [tasks EXCEPT ![k] = [@ EXCEPT !.pc = "generate",
                                       !.run = new_run_id(progress_state, req.run_id)]]
    /\ ready' = Tail(ready)
    /\ UNCHANGED <<lockHolder, lockWaiters, recv, alive, conn, calls, timer>>
    /\ UNCHANGED <<threads, sync_lock, pipe, metric>>

\* the progress callback: asyncio.create_task(self.update_progress(run_id,
\* completed_tasks, total_tasks)); the task runs when the loop next gets to it
callback(queue, slot) == call_soon(queue, slot)

\* the handler resumed after generate has returned for task req.i: the result
\* is appended, the sink is called, and either the next generate starts or
\* the pipeline returns and the handler awaits complete_run
handler_next(k) ==
    /\ tasks[k].pc = "generated"
    /\ tasks[k].res = "ok"
    /\ HasFreeSlot
    /\ \E u \in {FreeSlot} :
          /\ LET upd == [Idle EXCEPT !.op = "update", !.pc = "start", !.run = req.run,
                                     !.c = reported(req), !.t = <<run_total(req)>>]
                 last_task == req.i = req.ntasks
                 last_model == req.model = req.nmodels
             IN  IF ~last_task
                 THEN /\ req' = [req EXCEPT !.i = req.i + 1]
                      /\ tasks' = [tasks EXCEPT ![u] = upd,
                                                ![k] = [@ EXCEPT !.pc = "generate", !.res = "-"]]
                      /\ ready' = callback(Tail(ready), u)
                 ELSE IF ~last_model
                 THEN /\ req' = [req EXCEPT !.i = 1, !.model = req.model + 1,
                                            !.completed_tasks = req.model * req.ntasks]
                      /\ tasks' = [tasks EXCEPT ![u] = upd,
                                                ![k] = [@ EXCEPT !.pc = "generate", !.res = "-"]]
                      /\ ready' = callback(Tail(ready), u)
                 ELSE \* "await progress_tracker.complete_run(...)" runs on in the
                      \* same segment: the handler stays at the head of the queue
                      /\ req' = [req EXCEPT !.phase = "completing",
                                            !.completed_tasks = req.model * req.ntasks]
                      /\ tasks' = [tasks EXCEPT ![u] = upd,
                                                ![k] = [@ EXCEPT !.op = "complete", !.pc = "start",
                                                                 !.msg = <<"m1">>, !.res = "-"]]
                      /\ ready' = <<k>> \o callback(Tail(ready), u)
    /\ UNCHANGED <<progress_state, websockets, lockHolder, lockWaiters, recv, alive,
                   conn, uuidCount, calls, timer>>
    /\ UNCHANGED <<threads, sync_lock, pipe, metric>>

\* the handler resumed with the exception generate raised: "except Exception"
\* awaits error_run(run_id, str(e)) in the same segment
handler_raise(k) ==
    /\ tasks[k].pc = "generated"
    /\ tasks[k].res = "raise"
    /\ req' = [req EXCEPT !.phase = "failing"]
    /\ tasks' = [tasks EXCEPT ![k] = [@ EXCEPT !.op = "error", !.pc = "start",
                                                 !.msg = <<"m1">>, !.res = "-"]]
    /\ UNCHANGED <<progress_state, websockets, lockHolder, lockWaiters, ready, recv,
                   alive, conn, uuidCount, calls, timer>>
    /\ UNCHANGED <<threads, sync_lock, pipe, metric>>

evaluate(k) ==
    /\ Running(k, "evaluate")
    /\ \/ handler_start(k)
       \/ handler_next(k)
       \/ handler_raise(k)

compare(k) ==
    /\ Running(k, "compare")
    /\ \/ handler_start(k)
       \/ handler_next(k)
       \/ handler_raise(k)

\* the worker thread of asyncio.to_thread finishes: generate returned or raised
GenerateReturns(k, outcome) ==
    /\ tasks[k].pc = "generate"
    /\ tasks' = [tasks EXCEPT ![k] = [@ EXCEPT !.pc = "generated", !.res = outcome]]
    /\ ready' = call_soon(ready, k)
    /\ UNCHANGED <<progress_state, websockets, lockHolder, lockWaiters, recv, alive,
                   conn, uuidCount, calls, req, timer>>
    /\ UNCHANGED <<threads, sync_lock, pipe, metric>>

\* asyncio.sleep(delay_seconds) of _cleanup_run_later is over
TimerFires ==
    /\ timer = "armed"
    /\ Spawn([Idle EXCEPT !.op = "cleanup", !.pc = "start", !.run = req.run])
    /\ timer' = "fired"
    /\ UNCHANGED <<progress_state, websockets, lockHolder, lockWaiters, recv, alive,
                   conn, uuidCount, calls, req>>
    /\ UNCHANGED <<threads, sync_lock, pipe, metric>>

\* _cleanup_run_later after its sleep: progress_tracker.cleanup_run(run_id)
cleanup_run_later(k) ==
    /\ Running(k, "cleanup")
    /\ progress_state' = cleanup_state(progress_state, tasks[k].run)
    /\ websockets' = cleanup_sockets(websockets, tasks[k].run)
    /\ tasks' = [tasks EXCEPT ![k] = Finished(tasks[k], "-")]
    /\ ready' = Tail(ready)
    /\ timer' = "done"
    /\ UNCHANGED <<lockHolder, lockWaiters, recv, alive, conn, uuidCount, calls, req>>
    /\ UNCHANGED <<threads, sync_lock, pipe, metric>>

DatasetSizes == 1..MaxDataset

ModelCounts == 1..MaxModels

NextHttp ==
    \/ \E n \in DatasetSizes, id \in {<<>>} \cup {<<r>> : r \in ClientIds} :
          Post("evaluate", 1, n, id)
    \/ \E m \in ModelCounts, n \in DatasetSizes, id \in {<<>>} \cup {<<r>> : r \in ClientIds} :
          Post("compare", m, n, id)
    \/ \E k \in Slots : evaluate(k)
    \/ \E k \in Slots : compare(k)
    \/ \E k \in Slots, outcome \in {"ok", "raise"} : GenerateReturns(k, outcome)
    \/ \E k \in Slots : update_progress(k)
    \/ \E k \in Slots : complete_run(k)
    \/ \E k \in Slots : error_run(k)
    \/ TimerFires
    \/ \E k \in Slots : cleanup_run_later(k)
    \/ \E s \in HttpSubs, r \in RunIds : Connect(s, r)
    \/ \E s \in HttpSubs : Disconnect(s)
    \/ \E k \in Slots : register_websocket(k)
    \/ \E k \in Slots : unregister_websocket(k)
    \/ \E k \in Slots, res \in {"ok", "fail"} : SendReturns(k, res)

SpecHttp == Init /\ [][NextHttp]_vars

-----------------------------------------------------------------------------
(* The evaluation pipeline by itself (pipeline.py): one call of            *)
(* evaluate_model_on_dataset or compare_models, with a model runner whose   *)
(* generate gives a right answer, a wrong answer or raises, and a progress  *)
(* sink that returns or raises.  A step is one segment of the coroutine,    *)
(* from one "await asyncio.to_thread(...)" to the next.                     *)

TaskIds == {"a", "b"}

\* lists of task ids of length 0..MaxDataset, duplicates allowed
Datasets == UNION {[1..n -> TaskIds] : n \in 0..MaxDataset}

\* a runner whose exception is swallowed
generate_raised_swallowed(outcome) == FALSE

\* "model_output = await asyncio.to_thread(model_runner.generate, prompt)":
\* nothing around it catches an exception of generate
generate_raised(outcome) == outcome = "raise"

\* evaluate_model_on_dataset without its try/except around the sink
sink_failure_uncaught == FALSE

\* "try: progress_callback(i, total_tasks) except Exception: logger.warning"
sink_failure_caught == TRUE

\* TaskResult: the fields the model keeps
TaskResult(task_id, outcome) == [task_id |-> task_id, correct |-> outcome = "right"]

\* an EvaluationResult that lists the tasks last first
EvaluationResult_reversed(task_results, dataset) ==
    [task_results |-> [j \in 1..Len(task_results) |->
                          task_results[Len(task_results) + 1 - j]],
     total_tasks |-> Len(dataset)]

\* EvaluationResult(task_results=task_results, total_tasks=len(tasks))
EvaluationResult(task_results, dataset) ==
    [task_results |-> task_results, total_tasks |-> Len(dataset)]

\* a pipeline that accepts an empty task list
no_tasks_unchecked(dataset) == FALSE

\* "if not tasks: raise ValueError", in evaluate_model_on_dataset and in
\* compare_models
no_tasks(dataset) == dataset = <<>>

\* compare_models without the check of the two lengths
length_mismatch_unchecked(nrunners, nconfigs) == FALSE

\* "if len(model_runners) != len(model_configs): raise ValueError"
length_mismatch(nrunners, nconfigs) == nrunners # nconfigs

\* a pipeline that never reports
progress_callback_ignored(has_sink) == FALSE

\* "if progress_callback is not None", in evaluate_model_on_dataset and in
\* the wrapper of compare_models
progress_callback_given(has_sink) == has_sink

\* results collected last first
collect_in_front(results, result) == <<result>> \o results

\* "results.append(result)" of compare_models
collect(results, result) == Append(results, result)

\* the coroutine reaches "await asyncio.to_thread(generate)" for task i of model m
start_generate(p, m, i) ==
    [p EXCEPT !.phase = "generating", !.model = m, !.i = i, !.gen = "-",
              !.invoked = Append(p.invoked, <<m, i>>),
              !.log = Append(p.log, <<"generate", m, i>>)]

\* evaluate_model_on_dataset(...) or compare_models(...) is called and runs
\* to its first await: the validation, then the first generate
pipeline_call(kind, nrunners, nconfigs, dataset, has_sink) ==
    /\ pipe.phase = "idle"
    /\ kind = "evaluate" => nrunners = 1 /\ nconfigs = 1
    /\ LET p == [NoPipeline EXCEPT !.kind = kind, !.dataset = dataset,
                                   !.nrunners = nrunners, !.nconfigs = nconfigs,
                                   !.has_sink = has_sink]
       IN  pipe' =
              IF kind = "compare" /\ length_mismatch(nrunners, nconfigs)
              THEN [p EXCEPT !.phase = "raised", !.raised = "ValueError"]
              ELSE IF no_tasks(dataset)
              THEN [p EXCEPT !.phase = "raised", !.raised = "ValueError"]
              ELSE IF nrunners = 0
              THEN [p EXCEPT !.phase = "returned", !.ret = <<<<>>>>]
              ELSE start_generate(p, 1, 1)
    /\ UNCHANGED <<progress_state, websockets, lockHolder, lockWaiters, tasks, ready,
                   recv, alive, conn, uuidCount, calls, req, timer, threads, sync_lock, metric>>

\* generate returns an answer or raises, in its worker thread
pipeline_generate(outcome) ==
    /\ pipe.phase = "generating"
    /\ pipe' = [pipe EXCEPT !.phase = "generated", !.gen = outcome,
                            !.answers = Append(pipe.answers, outcome)]
    /\ UNCHANGED <<progress_state, websockets, lockHolder, lockWaiters, tasks, ready,
                   recv, alive, conn, uuidCount, calls, req, timer, threads, sync_lock, metric>>

\* the coroutine resumed after generate: the exception of generate leaves
\* the pipeline; otherwise the TaskResult is appended, the sink is called
\* (sink_outcome: it returns or raises), and the loop goes on to the next
\* task, the next model, or the return
pipeline_resume(sink_outcome) ==
    /\ pipe.phase = "generated"
    /\ sink_outcome = "raise" => pipe.has_sink /\ ~generate_raised(pipe.gen)
    /\ LET n == Len(pipe.dataset)
           compare_kind == pipe.kind = "compare"
           tr == Append(pipe.task_results, TaskResult(pipe.dataset[pipe.i], pipe.gen))
           count == IF compare_kind
                    THEN global_completed(pipe.completed_tasks, n, pipe.i)
                    ELSE pipe.i
           total == IF compare_kind THEN pipe.nrunners * n ELSE n
           appended == Append(pipe.log, <<"append", pipe.model, pipe.i>>)
           p1 == IF progress_callback_given(pipe.has_sink)
                 THEN [pipe EXCEPT !.task_results = tr,
                                   !.sunk = Append(pipe.sunk, <<count, total>>),
                                   !.sink_failed = pipe.sink_failed \/ sink_outcome = "raise",
                                   !.log = Append(appended, <<"sink", count, total>>)]
                 ELSE [pipe EXCEPT !.task_results = tr, !.log = appended]
           result == EvaluationResult(tr, pipe.dataset)
       IN  pipe' =
              IF generate_raised(pipe.gen)
              THEN [pipe EXCEPT !.phase = "raised", !.raised = "ProviderError"]
              ELSE IF sink_outcome = "raise" /\ ~sink_failure_caught
              THEN [p1 EXCEPT !.phase = "raised", !.raised = "SinkError"]
              ELSE IF pipe.i < n
              THEN start_generate(p1, pipe.model, pipe.i + 1)
              ELSE IF ~compare_kind
              THEN [p1 EXCEPT !.phase = "returned", !.ret = <<result>>]
              ELSE IF pipe.model < pipe.nrunners
              THEN start_generate([p1 EXCEPT !.results = collect(pipe.results, result),
                                             !.completed_tasks = pipe.model * n,
                                             !.task_results = <<>>],
                                  pipe.model + 1, 1)
              ELSE [p1 EXCEPT !.phase = "returned",
                              !.results = collect(pipe.results, result),
                              !.completed_tasks = pipe.model * n,
                              !.ret = <<collect(pipe.results, result)>>]
    /\ UNCHANGED <<progress_state, websockets, lockHolder, lockWaiters, tasks, ready,
                   recv, alive, conn, uuidCount, calls, req, timer, threads, sync_lock, metric>>

NextPipeline ==
    \/ \E d \in Datasets, has_sink \in BOOLEAN :
          pipeline_call("evaluate", 1, 1, d, has_sink)
    \/ \E nr \in 0..MaxModels, nc \in 0..MaxModels, d \in Datasets, has_sink \in BOOLEAN :
          pipeline_call("compare", nr, nc, d, has_sink)
    \/ \E outcome \in {"right", "wrong", "raise"} : pipeline_generate(outcome)
    \/ \E sink_outcome \in {"ok", "raise"} : pipeline_resume(sink_outcome)

SpecPipeline == Init /\ [][NextPipeline]_vars

-----------------------------------------------------------------------------
(* The metric functions (metrics/core.py) and the aggregation at the end   *)
(* of evaluate_model_on_dataset (pipeline.py).  A string is a sequence of   *)
(* characters; a float is kept exact, as the fraction num/den; a            *)
(* probability is counted in hundredths; None is <<>> and a value v that   *)
(* is present is <<v>>.                                                     *)

\* the same answer in different spellings
Spellings ==
    { {<<"a">>, <<" ", "A">>, <<"A", " ">>},
      {<<"b">>},
      {<<>>, <<" ">>} }

\* the strings given as predictions and targets
Answers == UNION Spellings

\* what a model reports as confidence, in hundredths, None included: in
\* range, at the upper end, and out of range (ModelOutput.confidence is a
\* float without a range check)
Confidences == {<<>>, <<50>>, <<100>>, <<150>>}

\* the reasoning traces of a ModelOutput.  A trace is a list of words and
\* of the whitespace between them: none, a text of whitespace, a plain
\* trace, and a trace of two steps that corrects itself
CotTexts ==
    { <<>>,
      << <<" ", "\n">> >>,
      << <<"so", " ", "x">> >>,
      << <<"1.", " ", "actually", "\n", "-", " ", "y">> >> }

\* the whitespace of a trace
whitespace == {" ", "\n"}

\* len() of a word or of a whitespace of a trace
char_len ==
    [a \in {" ", "\n", "-", "*", "x", "y"} |-> 1]
    @@ [a \in {"so", "1."} |-> 2]
    @@ [a \in {"actually"} |-> 8]

\* total_tokens of a ModelOutput
TokenCounts == {<<>>, <<7>>}

\* "correction_keywords" of evaluate_model_on_dataset, those of one word
correction_keywords == {"actually", "sorry", "correction"}

\* the list of the integers produced by a list comprehension over 1..n
Lists(S, n) == UNION {[1..k -> S] : k \in 0..n}

\* a fraction num/den
Ratio(num, den) == [num |-> num, den |-> den]

RECURSIVE sum(_)
\* sum(values) of Python
sum(values) == IF values = <<>> THEN 0 ELSE Head(values) + sum(Tail(values))

RECURSIVE lstrip(_)
lstrip(s) == IF s # <<>> /\ Head(s) = " " THEN lstrip(Tail(s)) ELSE s

RECURSIVE rstrip(_)
rstrip(s) ==
    IF s # <<>> /\ s[Len(s)] = " " THEN rstrip(SubSeq(s, 1, Len(s) - 1)) ELSE s

\* str.strip()
strip(s) == rstrip(lstrip(s))

\* str.lower()
lower(s) ==
    [i \in 1..Len(s) |-> IF s[i] = "A" THEN "a" ELSE IF s[i] = "B" THEN "b" ELSE s[i]]

\* "pred.strip().lower() == target.strip().lower()"
matches(pred, target) == lower(strip(pred)) = lower(strip(target))

\* the indexes zip(a, b) pairs up
zipped(a, b) == 1..(IF Len(a) <= Len(b) THEN Len(a) ELSE Len(b))

\* an accuracy that compares the stripped answers letter case included
accuracy_case_sensitive(predictions, targets) ==
    IF predictions = <<>> \/ Len(predictions) # Len(targets)
    THEN Ratio(0, 1)
    ELSE Ratio(Cardinality({i \in zipped(predictions, targets) :
                               strip(predictions[i]) = strip(targets[i])}),
               Len(predictions))

\* accuracy(predictions, targets)
accuracy(predictions, targets) ==
    IF predictions = <<>> \/ Len(predictions) # Len(targets)
    THEN Ratio(0, 1)
    ELSE Ratio(Cardinality({i \in zipped(predictions, targets) :
                               matches(predictions[i], targets[i])}),
               Len(predictions))

\* a rate that takes malformed input for fully supported
usr_v0_optimistic(predictions, targets) ==
    IF predictions = <<>> \/ Len(predictions) # Len(targets)
    THEN Ratio(0, 1)
    ELSE Ratio(Cardinality({i \in zipped(predictions, targets) :
                               ~matches(predictions[i], targets[i])}),
               Len(predictions))

\* usr_v0(predictions, targets)
usr_v0(predictions, targets) ==
    IF predictions = <<>> \/ Len(predictions) # Len(targets)
    THEN Ratio(1, 1)
    ELSE LET usr_scores == [i \in zipped(predictions, targets) |->
                               IF matches(predictions[i], targets[i]) THEN 0 ELSE 1]
         IN  Ratio(sum(usr_scores), Len(usr_scores))

\* "[v for v in values if v is not None]"
valid_values(values) ==
    LET kept == SelectSeq(values, LAMBDA v : v # <<>>)
    IN  [i \in 1..Len(kept) |-> kept[i][1]]

\* a mean that counts a missing entry as zero
mean_counting_missing(values) ==
    IF valid_values(values) = <<>>
    THEN <<>>
    ELSE <<Ratio(sum(valid_values(values)), Len(values))>>

\* mean_or_none(values)
mean_or_none(values) ==
    LET valid == valid_values(values)
    IN  IF valid = <<>> THEN <<>> ELSE <<Ratio(sum(valid), Len(valid))>>

\* self_correction_rate(flags)
self_correction_rate(flags) ==
    LET valid_flags == valid_values(flags)
    IN  IF valid_flags = <<>>
        THEN <<>>
        ELSE <<Ratio(sum([i \in 1..Len(valid_flags) |-> IF valid_flags[i] THEN 1 ELSE 0]),
                     Len(valid_flags))>>

RECURSIVE insort(_, _)
insort(x, s) ==
    IF s = <<>> THEN <<x>>
    ELSE IF x < Head(s) THEN <<x>> \o s
    ELSE <<Head(s)>> \o insort(x, Tail(s))

RECURSIVE sorted(_)
\* sorted(values), ascending
sorted(values) ==
    IF values = <<>> THEN <<>> ELSE insort(Head(values), sorted(Tail(values)))

\* math.ceil(0.95 * n); the product of the floats is on the same side of
\* every integer as 95n/100 for the n of the model
ceil_95(n) == (95 * n + 99) \div 100

\* a percentile that is the largest value
latency_max(latencies) ==
    LET sorted_latencies == sorted(valid_values(latencies))
    IN  IF sorted_latencies = <<>>
        THEN <<>>
        ELSE <<sorted_latencies[Len(sorted_latencies)]>>

\* latency_p95(latencies); idx counts from 0
latency_p95(latencies) ==
    LET valid_latencies == valid_values(latencies)
        sorted_latencies == sorted(valid_latencies)
        n == Len(sorted_latencies)
        idx0 == ceil_95(n) - 1
        upper == IF idx0 < n - 1 THEN idx0 ELSE n - 1
        idx == IF upper > 0 THEN upper ELSE 0
    IN  IF valid_latencies = <<>> THEN <<>> ELSE <<sorted_latencies[idx + 1]>>

\* "[(p, c) for p, c in zip(probs, correct) if p is not None]"
valid_pairs(probs, correct) ==
    LET kept == SelectSeq([i \in zipped(probs, correct) |-> i],
                          LAMBDA i : probs[i] # <<>>)
    IN  [j \in 1..Len(kept) |-> <<probs[kept[j]][1], correct[kept[j]]>>]

\* brier_score_v2(probs, correct): the squared errors in ten-thousandths
brier_score_v2(probs, correct) ==
    IF Len(probs) # Len(correct)
    THEN <<>>
    ELSE LET pairs == valid_pairs(probs, correct)
             scores == [j \in 1..Len(pairs) |->
                           (pairs[j][1] - (IF pairs[j][2] THEN 100 ELSE 0))
                           * (pairs[j][1] - (IF pairs[j][2] THEN 100 ELSE 0))]
         IN  IF pairs = <<>> THEN <<>> ELSE <<Ratio(sum(scores), 10000 * Len(scores))>>

\* "num_bins: int = 10"
num_bins == 10

\* "prob_clamped = max(0.0, min(1.0, prob))", in hundredths
prob_clamped(prob) == IF prob < 0 THEN 0 ELSE IF prob > 100 THEN 100 ELSE prob

\* a bin index without the cap at the last bin
bin_idx_uncapped(prob) == (prob_clamped(prob) * num_bins) \div 100

\* "bin_idx = min(int(prob_clamped * num_bins), num_bins - 1)"
bin_idx(prob) ==
    LET scaled == (prob_clamped(prob) * num_bins) \div 100
    IN  IF scaled < num_bins - 1 THEN scaled ELSE num_bins - 1

\* |x|
abs(x) == IF x < 0 THEN 0 - x ELSE x

\* "bins" and "bin_correctness" once the pairs are assigned: the list, by
\* bin, of the pairs (prob_clamped, correct) appended to it
bins(pairs) ==
    [b \in 1..num_bins |->
        LET members == SelectSeq(pairs, LAMBDA pc : bin_idx(pc[1]) = b - 1)
        IN  [j \in 1..Len(members) |-> <<prob_clamped(members[j][1]), members[j][2]>>]]

\* expected_calibration_error_v2(probs, correct): the term of a bin,
\* (len/total) * |sum(conf)/len - sum(acc)/len|, is |sum(conf) - sum(acc)|
\* over total; the sums are in hundredths
expected_calibration_error_v2(probs, correct) ==
    IF Len(probs) # Len(correct)
    THEN <<>>
    ELSE LET pairs == valid_pairs(probs, correct)
             gap(members) ==
                 abs(sum([j \in 1..Len(members) |-> members[j][1]])
                     - sum([j \in 1..Len(members) |->
                               IF members[j][2] THEN 100 ELSE 0]))
             gaps == [b \in 1..num_bins |-> gap(bins(pairs)[b])]
         IN  IF pairs = <<>> THEN <<>> ELSE <<Ratio(sum(gaps), 100 * Len(pairs))>>

\* what generate can give back for one task
ModelOutputs ==
    [answer : {<<" ", "A">>, <<"b">>}, cot_text : CotTexts,
     confidence : Confidences, total_tokens : TokenCounts]

\* str.split() of a trace: its words
split(text) == SelectSeq(text, LAMBDA a : a \notin whitespace)

\* len(answer.split()): the runs of characters other than blanks
answer_tokens(answer) ==
    Cardinality({j \in 1..Len(answer) :
                    answer[j] # " " /\ (j = 1 \/ answer[j - 1] = " ")})

RECURSIVE split_lines(_)
\* text.split('\n')
split_lines(text) ==
    IF \A j \in 1..Len(text) : text[j] # "\n"
    THEN <<text>>
    ELSE LET nl == CHOOSE j \in 1..Len(text) :
                       text[j] = "\n" /\ \A h \in 1..(j - 1) : text[h] # "\n"
         IN  <<SubSeq(text, 1, nl - 1)>> \o split_lines(SubSeq(text, nl + 1, Len(text)))

\* step_pattern.match(line): r'^\s*(\d+\.|-|\*)\s+'
step_pattern(line) ==
    LET body == lstrip(line)
    IN  Len(body) >= 2 /\ body[1] \in {"1.", "-", "*"} /\ body[2] = " "

\* a test of the trace that forgets the blank text
has_trace_unstripped(cot_text) == cot_text # <<>>

\* "if cot_text is not None and cot_text.strip()"
has_trace(cot_text) == cot_text # <<>> /\ split(cot_text[1]) # <<>>

\* the TaskResult evaluate_model_on_dataset builds from a ModelOutput: the
\* correctness, and the fields derived from the trace when there is one
scored(model_output, target) ==
    LET has_cot == has_trace(model_output.cot_text)
        cot_text == model_output.cot_text[1]
        lines == split_lines(cot_text)
        cot_tokens == Len(split(cot_text))
        larger(x, y) == IF x > y THEN x ELSE y
    IN  [target |-> target,
         model_output |-> model_output,
         correct |-> matches(model_output.answer, target),
         prob_correct |-> model_output.confidence,
         cot_tokens |-> IF has_cot THEN <<cot_tokens>> ELSE <<>>,
         cot_chars |->
             IF has_cot
             THEN <<sum([j \in 1..Len(cot_text) |-> char_len[cot_text[j]]])>>
             ELSE <<>>,
         step_count |->
             IF has_cot
             THEN <<Cardinality({j \in 1..Len(lines) : step_pattern(lines[j])})>>
             ELSE <<>>,
         ra_ratio |->
             IF has_cot
             THEN <<Ratio(cot_tokens, larger(1, answer_tokens(model_output.answer)))>>
             ELSE <<>>,
         self_correcting |->
             IF has_cot
             THEN <<\E j \in 1..Len(cot_text) : cot_text[j] \in correction_keywords>>
             ELSE <<>>,
         total_tokens |-> model_output.total_tokens]

\* the column of a field of the task results
column(task_results, field) == [i \in 1..Len(task_results) |-> task_results[i][field]]

\* the MetricsSummary evaluate_model_on_dataset builds from its task results
MetricsSummary(task_results) ==
    LET preds == [i \in 1..Len(task_results) |-> task_results[i].model_output.answer]
        targets_list == column(task_results, "target")
        correct_flags == column(task_results, "correct")
        prob_correct_list == column(task_results, "prob_correct")
    IN  [accuracy |-> accuracy(preds, targets_list),
         usr |-> usr_v0(preds, targets_list),
         brier |-> brier_score_v2(prob_correct_list, correct_flags),
         ece |-> expected_calibration_error_v2(prob_correct_list, correct_flags),
         cot_tokens_mean |-> mean_or_none(column(task_results, "cot_tokens")),
         cot_chars_mean |-> mean_or_none(column(task_results, "cot_chars")),
         step_count_mean |-> mean_or_none(column(task_results, "step_count")),
         self_correction_rate |->
             self_correction_rate(column(task_results, "self_correcting")),
         total_tokens_mean |-> mean_or_none(column(task_results, "total_tokens"))]

\* a metric function is called and returns
metric_call(fn, args, result) ==
    /\ metric = NoMetric
    /\ metric' = [fn |-> fn, args |-> args, result |-> result]
    /\ UNCHANGED <<progress_state, websockets, lockHolder, lockWaiters, tasks, ready,
                   recv, alive, conn, uuidCount, calls, req, timer, threads, sync_lock,
                   pipe>>

call_accuracy(predictions, targets) ==
    metric_call("accuracy", <<predictions, targets>>, accuracy(predictions, targets))

call_usr_v0(predictions, targets) ==
    metric_call("usr_v0", <<predictions, targets>>, usr_v0(predictions, targets))

call_latency_p95(latencies) ==
    metric_call("latency_p95", <<latencies>>, latency_p95(latencies))

call_expected_calibration_error_v2(probs, correct) ==
    metric_call("expected_calibration_error_v2", <<probs, correct>>,
                expected_calibration_error_v2(probs, correct))

\* probabilities given to the calibration functions, in hundredths: missing,
\* below 0, 0, next to and on the edge of a bin, inside the last bin, 1.0
\* and above 1
Probs == {<<>>, <<-50>>, <<0>>, <<29>>, <<30>>, <<95>>, <<100>>, <<150>>}

\* the end of evaluate_model_on_dataset: the task results of the outputs
\* generate gave for tasks whose target is "a", and their MetricsSummary
aggregate(model_outputs) ==
    LET task_results == [i \in 1..Len(model_outputs) |-> scored(model_outputs[i], <<"a">>)]
    IN  metric_call("evaluate", <<task_results>>, MetricsSummary(task_results))

\* the latencies 10, 20, ..., 10n in the order that starts at 10*first and
\* goes round in steps of stride, with None put in after every one of them
\* when gaps is set
spread(n, first, stride, gaps) ==
    LET value(i) == <<10 * ((((first - 1) + (i - 1) * stride) % n) + 1)>>
    IN  IF gaps
        THEN [j \in 1..(2 * n) |-> IF j % 2 = 1 THEN value((j + 1) \div 2) ELSE <<>>]
        ELSE [j \in 1..n |-> value(j)]

\* short lists of latencies, None and repeated values included, and the
\* list of test_latency_p95_with_nones
Latencies ==
    Lists({<<>>, <<10>>, <<30>>}, MaxResults + 1)
    \cup {<< <<10>>, <<>>, <<30>>, <<>>, <<50>> >>}

NextMetrics ==
    \/ /\ metric = NoMetric
       /\ \E p \in Lists(Answers, MaxResults), t \in Lists(Answers, MaxResults) :
             call_accuracy(p, t)
    \/ /\ metric = NoMetric
       /\ \E p \in Lists(Answers, MaxResults), t \in Lists(Answers, MaxResults) :
             call_usr_v0(p, t)
    \/ /\ metric = NoMetric
       /\ \E l \in Latencies : call_latency_p95(l)
    \/ /\ metric = NoMetric
       /\ \E n \in 1..MaxLatencies, gaps \in BOOLEAN :
             \E first \in 1..n, stride \in {1, n - 1} \ {0} :
                call_latency_p95(spread(n, first, stride, gaps))
    \/ /\ metric = NoMetric
       /\ \E outs \in Lists(ModelOutputs, MaxResults) : outs # <<>> /\ aggregate(outs)
    \/ /\ metric = NoMetric
       /\ \E probs \in Lists(Probs, MaxResults), correct \in Lists(BOOLEAN, MaxResults) :
             call_expected_calibration_error_v2(probs, correct)

SpecMetrics == Init /\ [][NextMetrics]_vars

-----------------------------------------------------------------------------
(* Vocabulary of the properties.                                           *)

BroadcastOps == {"update", "complete", "error"}

Terminal(u) == u.status \in {"done", "error"}

\* the step in which task k runs the body of its operation under the lock
BodyStep(k, op) ==
    /\ tasks[k].op = op
    /\ tasks[k].pc \in {"start", "granted"}
    /\ tasks'[k].pc \in {"send", "done"}

\* the step in which the broadcast pass of task k ends
PassEnds(k) ==
    /\ tasks[k].op \in BroadcastOps
    /\ tasks[k].pc = "sent"
    /\ tasks'[k].pc = "done"

\* the subscribers of the pass of task k whose send has raised so far
FailedIn(tk) ==
    Range(tk.disc) \cup (IF tk.res = "fail" THEN {tk.lst[tk.idx]} ELSE {})

LastOf(seq) == seq[Len(seq)]

-----------------------------------------------------------------------------
(* C1 *)

\* C1: once a run's status is done or error, its status, completed_tasks,
\* percentage and message stay as they are for as long as the run is in the
\* registry, whatever tracker operation is applied to it.
C1_TerminalStateIsFinal ==
    [][\A r \in DOMAIN progress_state :
          (Terminal(progress_state[r]) /\ r \in DOMAIN progress_state')
          => /\ progress_state'[r].status = progress_state[r].status
             /\ progress_state'[r].completed_tasks = progress_state[r].completed_tasks
             /\ progress_state'[r].percentage = progress_state[r].percentage
             /\ progress_state'[r].message = progress_state[r].message]_vars

-----------------------------------------------------------------------------
(* C2 *)

\* the last state a subscriber of the request's run was sent, if any
LastDelivered(s) == IF recv[s] = <<>> THEN <<>> ELSE <<LastOf(recv[s])>>

\* C2: in the HTTP protocol, once the handler has made the terminal
\* transition and returned (complete_run on success, error_run on failure),
\* the state get_progress reads and the last state delivered to each
\* subscriber of the run have that terminal status, until cleanup.
C2_TerminalIsLastObserved ==
    \A st \in {"done", "error"} :
        (/\ req.phase = (IF st = "done" THEN "returned" ELSE "failed")
         /\ get_progress(req.run) # <<>>)
        => /\ get_progress(req.run)[1].status = st
           /\ \A s \in Subs :
                 (/\ conn[s] = [st |-> "registered", run |-> req.run]
                  /\ alive[s]
                  /\ LastDelivered(s) # <<>>)
                 => LastDelivered(s)[1].status = st

-----------------------------------------------------------------------------
(* C3 *)

\* C3: in a run driven by /evaluate or /compare through the progress
\* callback, every state stored with status running has completed_tasks and
\* percentage no smaller than the state it replaces: the updates are applied
\* in the order in which the callback was called.
C3_ProgressNeverDecreases ==
    [][\A r \in DOMAIN progress_state \cap DOMAIN progress_state' :
          progress_state'[r].status = "running"
          => /\ progress_state'[r].completed_tasks >= progress_state[r].completed_tasks
             /\ progress_state'[r].percentage >= progress_state[r].percentage]_vars

\* two updates of one run have been applied
C3_Witness ==
    \E r \in DOMAIN progress_state :
        /\ progress_state[r].status = "running"
        /\ progress_state[r].completed_tasks >= 2
        /\ progress_state[r].completed_tasks < progress_state[r].total_tasks

-----------------------------------------------------------------------------
(* C4 *)

\* the event loop runs the coroutine at the head of its ready queue
LoopRuns ==
    \E k \in Slots :
        \/ update_progress(k)
        \/ complete_run(k)
        \/ error_run(k)
        \/ register_websocket(k)
        \/ unregister_websocket(k)

\* a pending send_json returns or raises
SendEnds == \E k \in Slots, res \in {"ok", "fail"} : SendReturns(k, res)

\* The loop keeps running ready coroutines, and sends terminate.
SpecFair == Spec /\ WF_vars(LoopRuns) /\ WF_vars(SendEnds)

\* C4: update_progress, complete_run and error_run on an existing run start a
\* pass over exactly the subscribers attached to the run at that moment, with
\* the state just stored; when the pass ends each of them has been sent that
\* state (or its send has raised); no subscriber is ever sent a state of a run
\* other than its own; and, sends terminating, every pass ends.
C4_BroadcastReachesSubscribers ==
    /\ [][\A k \in Slots :
             ((\E op \in BroadcastOps : BodyStep(k, op))
                 /\ tasks[k].run \in DOMAIN progress_state)
             => IF tasks[k].run \in DOMAIN websockets /\ websockets[tasks[k].run] # <<>>
                THEN /\ tasks'[k].pc = "send"
                     /\ tasks'[k].upd = progress_state'[tasks[k].run]
                     /\ tasks'[k].lst = websockets[tasks[k].run]
                ELSE tasks'[k].pc = "done"]_vars
    /\ [][\A k \in Slots :
             PassEnds(k)
             => \A s \in Range(tasks[k].lst) :
                   \/ s \in FailedIn(tasks[k])
                   \/ recv[s] # <<>> /\ LastOf(recv[s]) = tasks[k].upd]_vars
    /\ [](\A s \in Subs : \A i \in 1..Len(recv[s]) : recv[s][i].run_id = conn[s].run)
    /\ \A k \in Slots : (tasks[k].pc = "send") ~> (tasks[k].pc = "done")

\* two subscribers of one run have both been sent the run's update, while it
\* is the run's current state
C4_Witness ==
    \E r \in DOMAIN progress_state :
        /\ progress_state[r].completed_tasks = 1
        /\ \A s \in Subs :
              /\ conn[s] = [st |-> "registered", run |-> r]
              /\ recv[s] # <<>>
              /\ LastOf(recv[s]) = progress_state[r]
        /\ \A k \in Slots : tasks[k].pc # "send"

-----------------------------------------------------------------------------
(* C5 *)

\* C5: a broadcast pass in which sends have raised still ends without raising,
\* and it removes from the run's subscriber list exactly the subscribers whose
\* send raised: every other subscriber of the list is still attached.
C5_FailedSendsAreContained ==
    [][\A k \in Slots :
          PassEnds(k)
          => /\ tasks'[k].raised = "-"
             /\ tasks[k].run \in DOMAIN websockets
                   => \A s \in Range(websockets[tasks[k].run]) :
                         s \in Range(websockets'[tasks[k].run]) <=> s \notin FailedIn(tasks[k])]_vars

-----------------------------------------------------------------------------
(* C6 *)

\* C6: while a broadcast waits for the send to one subscriber to complete, no
\* other subscriber of the pass is kept waiting for that state: the send to
\* each of them has been started already.
C6_SlowSubscriberBlocksNobody ==
    \A k \in Slots :
        (tasks[k].op \in BroadcastOps /\ tasks[k].pc = "send")
        => \A j \in 1..Len(tasks[k].lst) : j <= tasks[k].idx

-----------------------------------------------------------------------------
(* C7 *)

\* C7: register_websocket attaches the subscriber and, holding the lock that
\* every broadcast needs, sends it the run's current state when there is one,
\* so that the replay is the first message the subscriber gets; when the run
\* has no state it sends nothing.
C7_ReplayOnRegistration ==
    /\ [][\A k \in Slots :
             BodyStep(k, "register")
             => /\ tasks[k].sub \in Range(websockets'[tasks[k].run])
                /\ IF tasks[k].run \in DOMAIN progress_state
                   THEN /\ tasks'[k].pc = "send"
                        /\ tasks'[k].lst[tasks'[k].idx] = tasks[k].sub
                        /\ tasks'[k].upd = progress_state[tasks[k].run]
                        /\ lockHolder' = k
                   ELSE /\ tasks'[k].pc = "done"
                        /\ recv' = recv]_vars
    /\ [][\A k \in Slots :
             (tasks[k].op = "register" /\ tasks[k].pc = "send" /\ tasks'[k].pc = "sent")
             => /\ recv[tasks[k].sub] = <<>>
                /\ tasks'[k].res = "ok" => recv'[tasks[k].sub] = <<tasks[k].upd>>
                /\ tasks'[k].res = "fail" => recv' = recv]_vars

\* a subscriber that joined after an update got that update as its first message
C7_Witness ==
    \E s \in Subs :
        /\ conn[s].st = "registered"
        /\ recv[s] # <<>>
        /\ recv[s][1].completed_tasks = 1
        /\ recv[s][1].status = "running"

-----------------------------------------------------------------------------
(* C8 *)

-----------------------------------------------------------------------------
(* C9 *)

\* C9: error_run on an existing run changes status to error and message to the
\* error message, and nothing else: completed_tasks, total_tasks and
\* percentage are those of the state it replaces.
C9_ErrorKeepsProgress ==
    [][\A k \in Slots :
          (BodyStep(k, "error") /\ tasks[k].run \in DOMAIN progress_state)
          => progress_state'[tasks[k].run] =
                [progress_state[tasks[k].run] EXCEPT !.status = "error",
                                                     !.message = tasks[k].msg]]_vars

\* a run failed after progress had been reported
C9_Witness ==
    \E r \in DOMAIN progress_state :
        /\ progress_state[r].status = "error"
        /\ progress_state[r].completed_tasks > 0
        /\ progress_state[r].percentage > 0
        /\ progress_state[r].message = <<"m1">>

-----------------------------------------------------------------------------
(* C10 *)

\* C10: complete_run on an existing run stores completed_tasks = total_tasks
\* (the total of the state it replaces), percentage = 100.0, status done and
\* the given message, and starts the broadcast of exactly that state.
C10_CompleteForcesTotal ==
    [][\A k \in Slots :
          (BodyStep(k, "complete") /\ tasks[k].run \in DOMAIN progress_state)
          => /\ progress_state'[tasks[k].run] =
                   [run_id |-> tasks[k].run,
                    completed_tasks |-> progress_state[tasks[k].run].total_tasks,
                    total_tasks |-> progress_state[tasks[k].run].total_tasks,
                    percentage |-> 1000, status |-> "done", message |-> tasks[k].msg]
             /\ (tasks[k].run \in DOMAIN websockets /\ websockets[tasks[k].run] # <<>>)
                   => /\ tasks'[k].pc = "send"
                      /\ tasks'[k].upd = progress_state'[tasks[k].run]]_vars

\* a run was completed before all its tasks had been reported, and a
\* subscriber has been sent the final state
C10_Witness ==
    \E r \in DOMAIN progress_state, s \in Subs :
        /\ progress_state[r].status = "done"
        /\ progress_state[r].completed_tasks = MaxCount
        /\ Len(recv[s]) >= 2
        /\ recv[s][Len(recv[s]) - 1].completed_tasks < MaxCount
        /\ LastOf(recv[s]) = progress_state[r]

-----------------------------------------------------------------------------
(* C11 *)

\* p, in tenths, is num/den * 100 rounded to one decimal
NearestTenth(p, num, den) ==
    /\ 2 * (p * den - 1000 * num) <= den
    /\ 2 * (1000 * num - p * den) <= den

\* C11: update_progress(run, c, t) on an existing run stores run_id = run,
\* completed_tasks = c, total_tasks = t (the total of the state it replaces
\* when t is omitted), status running, no message, and as percentage
\* c / total * 100 rounded to one decimal, 0 when the total is 0.
C11_UpdateReplacesState ==
    [][\A k \in Slots :
          (BodyStep(k, "update") /\ tasks[k].run \in DOMAIN progress_state)
          => LET new == progress_state'[tasks[k].run]
                 total == IF tasks[k].t = <<>>
                          THEN progress_state[tasks[k].run].total_tasks
                          ELSE tasks[k].t[1]
             IN  /\ new.run_id = tasks[k].run
                 /\ new.completed_tasks = tasks[k].c
                 /\ new.total_tasks = total
                 /\ new.status = "running"
                 /\ new.message = <<>>
                 /\ IF total = 0 THEN new.percentage = 0
                    ELSE NearestTenth(new.percentage, tasks[k].c, total)]_vars

\* a run of 10 tasks reads 20.0 after update 2, and update 5 is on its way
C11_Witness ==
    \E r \in DOMAIN progress_state, k \in Slots :
        /\ progress_state[r] = ProgressUpdate(r, 2, 10, 200, "running", <<>>)
        /\ tasks[k].op = "update" /\ tasks[k].pc = "start"
        /\ tasks[k].run = r /\ tasks[k].c = 5 /\ tasks[k].t = <<>>

-----------------------------------------------------------------------------
(* C12 *)

\* C12: update_progress, complete_run and error_run for a run id that has no
\* entry in _progress_state return without raising and change nothing: no
\* entry is created, no state and no subscriber list changes, and no send
\* is started.
C12_UnknownRunIsNoOp ==
    [][\A k \in Slots :
          ((\E op \in BroadcastOps : BodyStep(k, op))
              /\ tasks[k].run \notin DOMAIN progress_state)
          => /\ progress_state' = progress_state
             /\ websockets' = websockets
             /\ recv' = recv
             /\ tasks'[k].pc = "done"
             /\ tasks'[k].raised = "-"
             /\ \A j \in Slots : tasks'[j].pc # "send"]_vars

\* an operation is about to run for a run id that has subscribers but no
\* registry entry, while another run exists
C12_Witness ==
    \E k \in Slots :
        /\ ready # <<>> /\ Head(ready) = k
        /\ tasks[k].op \in BroadcastOps /\ tasks[k].pc = "start"
        /\ lockHolder = 0
        /\ tasks[k].run \notin DOMAIN progress_state
        /\ tasks[k].run \in DOMAIN websockets
        /\ websockets[tasks[k].run] # <<>>
        /\ DOMAIN progress_state # {}

-----------------------------------------------------------------------------
(* C13 *)

\* the state create_run registers
InitialState(run_id, total_tasks) ==
    ProgressUpdate(run_id, 0, total_tasks, 0, "running", <<>>)

\* C13 as stated: create_run(total, id) returns a run id under which
\* get_progress yields running, 0 completed, the given total and percentage
\* 0, and a caller-supplied id that names no run is the id returned.
C13_CreateRunAnySuppliedId ==
    [][\A T \in Threads :
          /\ (create_run_choose(T)
                 /\ threads[T].run_id # <<>>
                 /\ threads[T].run_id[1] \notin DOMAIN progress_state)
             => threads'[T].rid = threads[T].run_id[1]
          /\ create_run_return(T)
             => /\ threads'[T].ret = <<threads[T].rid>>
                /\ get_progress(threads[T].rid)'
                      = <<InitialState(threads[T].rid, threads[T].total)>>]_vars

\* C13, amended: the same, for a caller-supplied id that is not the empty
\* string; the empty string is taken as no id and a fresh id is returned.
C13_CreateRun ==
    [][\A T \in Threads :
          /\ (create_run_choose(T)
                 /\ threads[T].run_id # <<>>
                 /\ threads[T].run_id[1] # EmptyId
                 /\ threads[T].run_id[1] \notin DOMAIN progress_state)
             => threads'[T].rid = threads[T].run_id[1]
          /\ (create_run_choose(T) /\ threads[T].run_id = <<EmptyId>>)
             => /\ threads'[T].rid # EmptyId
                /\ threads'[T].rid \notin DOMAIN progress_state
          /\ create_run_return(T)
             => /\ threads'[T].ret = <<threads[T].rid>>
                /\ get_progress(threads[T].rid)'
                      = <<InitialState(threads[T].rid, threads[T].total)>>]_vars

\* create_run has returned the id its caller supplied, and the run reads
\* as just created
C13_Witness ==
    \E T \in Threads :
        /\ threads[T].op = "create_run" /\ threads[T].pc = "returned"
        /\ threads[T].run_id \in {<<r>> : r \in ClientIds}
        /\ threads[T].ret = threads[T].run_id
        /\ threads[T].total = MaxCount
        /\ get_progress(threads[T].ret[1])
              = <<InitialState(threads[T].ret[1], MaxCount)>>

-----------------------------------------------------------------------------
(* C14 *)

\* the runs other than the one thread T is creating keep their state and
\* their subscribers
OthersKept(T) ==
    /\ \A r \in DOMAIN progress_state :
          r # threads'[T].rid
          => r \in DOMAIN progress_state' /\ progress_state'[r] = progress_state[r]
    /\ \A r \in DOMAIN websockets :
          r # threads'[T].rid
          => r \in DOMAIN websockets' /\ websockets'[r] = websockets[r]

\* C14: create_run with a supplied id that names a run of the registry
\* chooses an id that is different and names no run; no statement of
\* create_run changes the state or the subscribers of a run other than the
\* one it creates; when it returns both runs are in the registry.
C14_CollisionGetsFreshId ==
    [][\A T \in Threads :
          /\ (create_run_choose(T)
                 /\ threads[T].run_id # <<>>
                 /\ threads[T].run_id[1] \in DOMAIN progress_state)
             => /\ threads'[T].rid # threads[T].run_id[1]
                /\ threads'[T].rid \notin DOMAIN progress_state
                /\ threads'[T].rid \notin DOMAIN websockets
          /\ (\/ create_run_choose(T) \/ create_run_store_state(T)
              \/ create_run_store_sockets(T) \/ create_run_return(T))
             => OthersKept(T)
          /\ (create_run_return(T)
                 /\ threads[T].run_id # <<>> /\ threads[T].run_id[1] # EmptyId)
             => {threads[T].run_id[1], threads[T].rid}
                   \subseteq (DOMAIN progress_state' \cap DOMAIN websockets')]_vars

\* create_run was given the id of a run that has a subscriber: it has
\* returned another id, and the two runs stand side by side with their own
\* totals
C14_Witness ==
    \E T \in Threads, r \in ClientIds :
        /\ threads[T].op = "create_run" /\ threads[T].pc = "returned"
        /\ threads[T].run_id = <<r>>
        /\ threads[T].ret # <<r>>
        /\ r \in DOMAIN progress_state /\ websockets[r] # <<>>
        /\ progress_state[r].total_tasks # threads[T].total
        /\ get_progress(threads[T].ret[1])
              = <<InitialState(threads[T].ret[1], threads[T].total)>>

-----------------------------------------------------------------------------
(* C15 *)

\* C15: whenever two threads have both returned from create_run, they have
\* returned different run ids, and each id names a run in its initial state
\* with the total its own caller gave.
C15_RacingCreatesAreSerialised ==
    \A T1 \in Threads, T2 \in Threads :
        (/\ T1 # T2
         /\ threads[T1].op = "create_run" /\ threads[T1].pc = "returned"
         /\ threads[T2].op = "create_run" /\ threads[T2].pc = "returned")
        => /\ threads[T1].ret # threads[T2].ret
           /\ get_progress(threads[T1].ret[1])
                 = <<InitialState(threads[T1].ret[1], threads[T1].total)>>
           /\ get_progress(threads[T2].ret[1])
                 = <<InitialState(threads[T2].ret[1], threads[T2].total)>>
           /\ {threads[T1].ret[1], threads[T2].ret[1]} \subseteq DOMAIN websockets

\* two threads called create_run with the same id and different totals, one
\* of them found the lock taken and had to wait, and both have returned
C15_Witness ==
    \E T1 \in Threads, T2 \in Threads, r \in ClientIds :
        /\ T1 # T2
        /\ threads[T1].op = "create_run" /\ threads[T1].pc = "returned"
        /\ threads[T2].op = "create_run" /\ threads[T2].pc = "returned"
        /\ threads[T1].run_id = <<r>> /\ threads[T2].run_id = <<r>>
        /\ threads[T1].total # threads[T2].total
        /\ threads[T2].waited
        /\ threads[T1].ret = <<r>>

-----------------------------------------------------------------------------
(* C16 *)

\* C16: a call of the callback of get_progress_callback(run), whoever makes
\* it, changes no run's state, no subscriber list and nothing a subscriber
\* has received.  Called by a coroutine of the loop it adds one
\* update_progress(run, completed, total) to the loop's queue and nothing
\* else; called from another thread it schedules nothing and does not raise.
\* A scheduled update stores its count only when the loop runs it.
C16_CallbackOnlySchedules ==
    [][/\ \A ctx \in {"loop"} \cup Threads, r \in RunIds, c \in Counts, t \in Counts :
             progress_callback(ctx, r, c, t)
             => /\ progress_state' = progress_state
                /\ websockets' = websockets
                /\ recv' = recv
                /\ ctx = "loop"
                   => \E u \in Slots :
                         /\ Free(u)
                         /\ tasks' = [tasks EXCEPT ![u] =
                                         [Idle EXCEPT !.op = "update", !.pc = "start",
                                                      !.run = r, !.c = c, !.t = <<t>>]]
                         /\ ready' = Append(ready, u)
                /\ ctx \in Threads
                   => /\ tasks' = tasks /\ ready' = ready
                      /\ threads'[ctx].pc = "returned"
                      /\ threads'[ctx].raised = "-"
       /\ \A k \in Slots :
             (BodyStep(k, "update") /\ tasks[k].run \in DOMAIN progress_state)
             => progress_state'[tasks[k].run].completed_tasks = tasks[k].c]_vars

\* a thread without an event loop has called the callback for a run of the
\* registry: the call has returned, nothing is scheduled and the run still
\* reads 0 completed
C16_Witness ==
    \E T \in Threads :
        /\ threads[T].op = "callback" /\ threads[T].pc = "returned"
        /\ threads[T].c > 0
        /\ threads[T].run_id[1] \in DOMAIN progress_state
        /\ progress_state[threads[T].run_id[1]].completed_tasks = 0
        /\ ready = <<>>
        /\ \A k \in Slots : tasks[k].pc = "idle"

-----------------------------------------------------------------------------
(* C17 *)

\* coroutine k runs a segment in this step
StepOf(k) == ready # <<>> /\ Head(ready) = k /\ tasks'[k] # tasks[k]

\* every run other than A is in the registry after the step exactly as before
KeptExcept(A) ==
    /\ DOMAIN progress_state' \ {A} = DOMAIN progress_state \ {A}
    /\ DOMAIN websockets' \ {A} = DOMAIN websockets \ {A}
    /\ \A B \in DOMAIN progress_state \ {A} : progress_state'[B] = progress_state[B]
    /\ \A B \in DOMAIN websockets \ {A} : websockets'[B] = websockets[B]

\* C17: a segment of update_progress, complete_run or error_run for run A
\* (its body, every resumption of its broadcast, the purge) and cleanup_run(A)
\* leave the state and the subscriber list of every other run as they were,
\* and add or remove no other run.
C17_RunsAreIndependent ==
    [][/\ \A k \in Slots :
             (StepOf(k) /\ tasks[k].op \in BroadcastOps) => KeptExcept(tasks[k].run)
       /\ \A A \in RunIds : cleanup_run(A) => KeptExcept(A)]_vars

\* two runs with a subscriber each: one has been completed and has lost its
\* subscriber to a failed send, the other still reads as created and still
\* has its subscriber
C17_Witness ==
    \E A \in DOMAIN progress_state, B \in DOMAIN progress_state :
        /\ A # B
        /\ progress_state[A].status = "done"
        /\ \E s \in Subs : conn[s].run = A /\ ~alive[s]
        /\ websockets[A] = <<>>
        /\ progress_state[B] = InitialState(B, MaxCount)
        /\ websockets[B] # <<>>

-----------------------------------------------------------------------------
(* C18 *)

TrackerOps == BroadcastOps \cup {"register", "unregister"}

\* the loop runs the next segment of a tracker coroutine
TrackerStep ==
    \E k \in Slots :
        \/ update_progress(k) \/ complete_run(k) \/ error_run(k)
        \/ register_websocket(k) \/ unregister_websocket(k)

GenerationInFlight == \E h \in Slots : tasks[h].pc = "generate"

\* C18: while a generate call of the /evaluate or /compare handler is in
\* flight, a tracker coroutine at the head of the loop's queue (an update, a
\* broadcast resumed, a registration, of any run) can run at once: the loop
\* does not wait for generate to return.
C18_GenerationDoesNotHoldTheLoop ==
    (/\ GenerationInFlight
     /\ ready # <<>>
     /\ tasks[Head(ready)].op \in TrackerOps)
    => ENABLED TrackerStep

\* the second generate call is in flight and, meanwhile, the update for the
\* first task has been stored and delivered to a subscriber
C18_Witness ==
    \E h \in Slots, s \in HttpSubs :
        /\ tasks[h].pc = "generate"
        /\ req.i = 2
        /\ req.run \in DOMAIN progress_state
        /\ progress_state[req.run].completed_tasks = 1
        /\ recv[s] # <<>>
        /\ LastOf(recv[s]) = progress_state[req.run]

-----------------------------------------------------------------------------
(* C19 *)

NoDuplicates(seq) == \A a \in 1..Len(seq), b \in 1..Len(seq) : seq[a] = seq[b] => a = b

\* C19: generate is called at most once per (model, task).  When it raises,
\* the pipeline ends with that exception in the very next segment: no
\* further generate call, no sink call for the failing task, no result, not
\* even the list of the models already evaluated; and it stays that way.
C19_ProviderErrorPropagates ==
    /\ [](NoDuplicates(pipe.invoked))
    /\ [](\A j \in 1..Len(pipe.answers) :
             pipe.answers[j] = "raise"
             => /\ j = Len(pipe.answers)
                /\ pipe.phase \in {"generated", "raised"}
                /\ pipe.ret = <<>>
                /\ Len(pipe.invoked) = j
                /\ pipe.has_sink => Len(pipe.sunk) = j - 1)
    /\ [][(pipe.phase = "generated" /\ pipe.gen = "raise")
          => pipe' = [pipe EXCEPT !.phase = "raised", !.raised = "ProviderError"]]_vars
    /\ [][pipe.phase = "raised" => pipe' = pipe]_vars

\* compare with a sink: the first model has been evaluated, generate has
\* raised for a task of the second, and compare has ended with that
\* exception and without a result
C19_Witness ==
    /\ pipe.kind = "compare" /\ pipe.has_sink
    /\ pipe.phase = "raised" /\ pipe.raised = "ProviderError"
    /\ Len(pipe.results) = 1
    /\ pipe.model = 2 /\ pipe.i < Len(pipe.dataset)
    /\ pipe.ret = <<>>

-----------------------------------------------------------------------------
(* C20 *)

\* the result for model m that follows from the dataset and from what
\* generate answered, whatever the sink did
ExpectedResult(m) ==
    LET n == Len(pipe.dataset)
    IN  EvaluationResult([i \in 1..n |->
                             TaskResult(pipe.dataset[i], pipe.answers[(m - 1) * n + i])],
                         pipe.dataset)

\* C20: no outcome of the sink ends the pipeline: a segment that got an
\* answer from generate never ends in an exception.  When the pipeline
\* returns, generate has been called for every task of every model in order,
\* the sink (if any) has been called once per task, failed calls included,
\* and the result is the one that follows from the tasks and the answers.
C20_SinkFailureNeverAborts ==
    /\ [](pipe.raised \in {"-", "ValueError", "ProviderError"})
    /\ [][(pipe.phase = "generated" /\ pipe.gen # "raise")
          => pipe'.phase \in {"generating", "returned"}]_vars
    /\ [](pipe.has_sink => Len(pipe.sunk) = Len(pipe.results) * Len(pipe.dataset)
                                            + Len(pipe.task_results)
                           \/ (pipe.phase = "returned" /\ pipe.kind = "compare"))
    /\ []((pipe.phase = "returned" /\ pipe.nrunners > 0)
          => LET n == Len(pipe.dataset)
             IN  /\ pipe.invoked = [j \in 1..(pipe.nrunners * n) |->
                                       <<((j - 1) \div n) + 1, ((j - 1) % n) + 1>>]
                 /\ pipe.has_sink => Len(pipe.sunk) = pipe.nrunners * n
                 /\ pipe.ret = IF pipe.kind = "evaluate"
                               THEN <<ExpectedResult(1)>>
                               ELSE <<[m \in 1..pipe.nrunners |-> ExpectedResult(m)]>>)

\* compare of two models on two tasks has returned its two results although
\* the sink has raised on the way
C20_Witness ==
    /\ pipe.kind = "compare" /\ pipe.has_sink
    /\ pipe.phase = "returned"
    /\ pipe.sink_failed
    /\ pipe.nrunners = 2 /\ Len(pipe.dataset) = 2
    /\ Len(pipe.ret[1]) = 2
    /\ pipe.ret[1][1].task_results[1].correct
    /\ ~pipe.ret[1][2].task_results[2].correct
    /\ Len(pipe.sunk) = 4

-----------------------------------------------------------------------------
(* C21 *)

\* the j-th event of evaluate over n tasks: generation, append and sink call
\* of task 1, then of task 2, ...
EvaluateEvent(j, n) ==
    LET i == ((j - 1) \div 3) + 1
    IN  IF (j - 1) % 3 = 0 THEN <<"generate", 1, i>>
        ELSE IF (j - 1) % 3 = 1 THEN <<"append", 1, i>>
        ELSE <<"sink", i, n>>

\* C21: evaluate with a sink over n tasks calls the sink once per task, after
\* that task's result is appended and before the next generation starts,
\* with (i, n) for task i; the sink has seen 1, 2, ..., and when evaluate
\* returns it has seen exactly 1..n, the last call being (n, n).
C21_SinkOncePerTaskInOrder ==
    (pipe.kind = "evaluate" /\ pipe.has_sink)
    => LET n == Len(pipe.dataset)
       IN  /\ \A j \in 1..Len(pipe.log) : pipe.log[j] = EvaluateEvent(j, n)
           /\ pipe.sunk = [i \in 1..Len(pipe.sunk) |-> <<i, n>>]
           /\ Len(pipe.sunk) = Len(pipe.task_results)
           /\ pipe.phase = "returned"
              => /\ Len(pipe.log) = 3 * n
                 /\ Len(pipe.sunk) = n
                 /\ pipe.sunk[n] = <<n, n>>

\* evaluate over the longest task list has returned and its sink has been
\* called for every task
C21_Witness ==
    /\ pipe.kind = "evaluate" /\ pipe.has_sink
    /\ pipe.phase = "returned"
    /\ Len(pipe.dataset) = MaxDataset
    /\ Len(pipe.sunk) = MaxDataset
    /\ ~pipe.sink_failed

-----------------------------------------------------------------------------
(* C22 *)

\* the task ids of a list of TaskResults
TaskIdsOf(task_results) == [i \in 1..Len(task_results) |-> task_results[i].task_id]

\* C22: what evaluate returns has one entry per input task, in input order,
\* duplicates included, and total_tasks is the length of both lists.
C22_ResultsFollowInput ==
    (pipe.kind = "evaluate" /\ pipe.phase = "returned")
    => /\ pipe.dataset # <<>>
       /\ Len(pipe.ret) = 1
       /\ TaskIdsOf(pipe.ret[1].task_results) = pipe.dataset
       /\ pipe.ret[1].total_tasks = Len(pipe.ret[1].task_results)
       /\ pipe.ret[1].total_tasks = Len(pipe.dataset)

\* evaluate has returned for a list that names one task twice: the result
\* has two entries for it, the first right and the second wrong
C22_Witness ==
    /\ pipe.kind = "evaluate" /\ pipe.phase = "returned"
    /\ Len(pipe.dataset) = 2
    /\ pipe.dataset[1] = pipe.dataset[2]
    /\ Len(pipe.ret[1].task_results) = 2
    /\ pipe.ret[1].task_results[1].correct
    /\ ~pipe.ret[1].task_results[2].correct

-----------------------------------------------------------------------------
(* C23 *)

\* the j-th event of compare over n tasks: model ((j-1) div 3n) + 1, task by
\* task, the sink called with the running total
CompareEvent(j, n, nrunners) ==
    LET t == ((j - 1) \div 3)
        m == (t \div n) + 1
        i == (t % n) + 1
    IN  IF (j - 1) % 3 = 0 THEN <<"generate", m, i>>
        ELSE IF (j - 1) % 3 = 1 THEN <<"append", m, i>>
        ELSE <<"sink", (m - 1) * n + i, nrunners * n>>

\* C23: compare over M models and N tasks calls the sink with
\* (k*N + c, M*N) when task c of model k+1 is done: the sink has seen
\* 1, 2, ... with the total M*N, and exactly 1..M*N when compare returns.
C23_CompareReportsRunningTotal ==
    (pipe.kind = "compare" /\ pipe.has_sink)
    => LET n == Len(pipe.dataset)
           M == pipe.nrunners
       IN  /\ \A j \in 1..Len(pipe.log) : pipe.log[j] = CompareEvent(j, n, M)
           /\ pipe.sunk = [j \in 1..Len(pipe.sunk) |-> <<j, M * n>>]
           /\ (pipe.phase = "returned" /\ M = pipe.nconfigs /\ n > 0)
              => Len(pipe.sunk) = M * n

\* compare of the most models on the longest task list has returned
C23_Witness ==
    /\ pipe.kind = "compare" /\ pipe.has_sink
    /\ pipe.phase = "returned"
    /\ pipe.nrunners = MaxModels /\ Len(pipe.dataset) = MaxDataset
    /\ Len(pipe.sunk) = MaxModels * MaxDataset
    /\ pipe.sunk[MaxDataset + 1] = <<MaxDataset + 1, MaxModels * MaxDataset>>

-----------------------------------------------------------------------------
(* C24 *)

\* C24: compare returns one result per (runner, config) pair, the m-th from
\* the answers of the m-th runner, every one listing the input's task ids in
\* the input's order with total_tasks the number of input tasks.
C24_OneResultPerModel ==
    (pipe.kind = "compare" /\ pipe.phase = "returned")
    => LET n == Len(pipe.dataset)
           res == pipe.ret[1]
       IN  /\ Len(pipe.ret) = 1
           /\ Len(res) = pipe.nrunners
           /\ pipe.nrunners = pipe.nconfigs
           /\ \A m \in 1..Len(res) :
                 /\ TaskIdsOf(res[m].task_results) = pipe.dataset
                 /\ res[m].total_tasks = n
                 /\ \A i \in 1..n :
                       /\ pipe.invoked[(m - 1) * n + i] = <<m, i>>
                       /\ res[m].task_results[i].correct
                          = (pipe.answers[(m - 1) * n + i] = "right")

\* compare of two models has returned: the first was right on every task
\* and the second wrong on every task, and the results say so in that order
C24_Witness ==
    /\ pipe.kind = "compare" /\ pipe.phase = "returned"
    /\ pipe.nrunners = 2 /\ Len(pipe.dataset) = 2
    /\ pipe.dataset[1] # pipe.dataset[2]
    /\ \A i \in 1..2 : pipe.ret[1][1].task_results[i].correct
    /\ \A i \in 1..2 : ~pipe.ret[1][2].task_results[i].correct

-----------------------------------------------------------------------------
(* C25 *)

\* the call has ended with the validation error and without any work
RejectedBeforeWork ==
    /\ pipe.phase = "raised" /\ pipe.raised = "ValueError"
    /\ pipe.invoked = <<>> /\ pipe.answers = <<>>
    /\ pipe.sunk = <<>>
    /\ pipe.log = <<>>
    /\ pipe.task_results = <<>> /\ pipe.results = <<>> /\ pipe.ret = <<>>

\* C25: evaluate called with an empty task list ends with the validation
\* error in the call itself: generate is never called, the sink is never
\* called, nothing is returned.
C25_EvaluateRejectsNoTasks ==
    (pipe.kind = "evaluate" /\ pipe.dataset = <<>>) => RejectedBeforeWork

\* evaluate has been called with a sink and no task
C25_Witness ==
    /\ pipe.kind = "evaluate" /\ pipe.dataset = <<>> /\ pipe.has_sink
    /\ pipe.raised = "ValueError"

-----------------------------------------------------------------------------
(* C26 *)

\* C26: compare called with lists of runners and configs of different
\* lengths, or with no task, ends with the validation error in the call
\* itself: no generate, no sink call, no result.
C26_CompareRejectsBadInput ==
    (pipe.kind = "compare" /\ (pipe.nrunners # pipe.nconfigs \/ pipe.dataset = <<>>))
    => RejectedBeforeWork

\* compare has been called with two runners, one config, tasks and a sink
C26_Witness ==
    /\ pipe.kind = "compare" /\ pipe.has_sink
    /\ pipe.nrunners = 2 /\ pipe.nconfigs = 1
    /\ pipe.dataset # <<>>
    /\ pipe.raised = "ValueError"

-----------------------------------------------------------------------------
(* C27 *)

\* 0 <= num/den <= 1
InUnit(r) == 0 <= r.num /\ r.num <= r.den

\* C27: in the MetricsSummary of evaluate, accuracy and USR lie in [0,1],
\* and so do Brier and ECE when they are not None, whatever answers and
\* confidences generate gave.
C27_BoundedMetricsInUnitInterval ==
    metric.fn = "evaluate"
    => /\ InUnit(metric.result.accuracy)
       /\ InUnit(metric.result.usr)
       /\ metric.result.brier # <<>> => InUnit(metric.result.brier[1])
       /\ metric.result.ece # <<>> => InUnit(metric.result.ece[1])

-----------------------------------------------------------------------------
(* C28 *)

RECURSIVE SumOver(_, _)
\* the sum of f[i] over the i of S
SumOver(S, f) ==
    IF S = {} THEN 0
    ELSE LET i == CHOOSE j \in S : TRUE IN f[i] + SumOver(S \ {i}, f)

\* the tasks for which a signal is there
PresentIn(task_results, field) ==
    {i \in 1..Len(task_results) : task_results[i][field] # <<>>}

\* an optional mean is None when the signal is missing everywhere, and
\* otherwise the sum of the signals that are there over their number
MeanOfPresent(task_results, field, mean) ==
    LET P == PresentIn(task_results, field)
    IN  IF P = {} THEN mean = <<>>
        ELSE /\ mean # <<>>
             /\ mean[1].den = Cardinality(P)
             /\ mean[1].num = SumOver(P, [i \in P |-> task_results[i][field][1]])

\* the bin of a probability p, in hundredths: [b/10, (b+1)/10), the last one
\* with 1.0, probabilities outside [0,1] moved to the nearest end
InBin(p, b) ==
    LET q == IF p < 0 THEN 0 ELSE IF p > 100 THEN 100 ELSE p
    IN  (10 * b <= q /\ q < 10 * (b + 1)) \/ (b = 9 /\ q = 100)

\* C28: each optional aggregate of the MetricsSummary of evaluate is None
\* exactly when its signal is missing for every task, and is otherwise
\* computed over the tasks that have the signal, the others skipped.
C28_OptionalAggregatesSkipMissing ==
    metric.fn = "evaluate"
    => LET tr == metric.args[1]
           ms == metric.result
           P == PresentIn(tr, "prob_correct")
           err(i) == tr[i].prob_correct[1] - (IF tr[i].correct THEN 100 ELSE 0)
           clamped(i) == IF tr[i].prob_correct[1] > 100 THEN 100
                         ELSE IF tr[i].prob_correct[1] < 0 THEN 0
                         ELSE tr[i].prob_correct[1]
           S == PresentIn(tr, "self_correcting")
       IN  /\ MeanOfPresent(tr, "cot_tokens", ms.cot_tokens_mean)
           /\ MeanOfPresent(tr, "cot_chars", ms.cot_chars_mean)
           /\ MeanOfPresent(tr, "step_count", ms.step_count_mean)
           /\ MeanOfPresent(tr, "total_tokens", ms.total_tokens_mean)
           /\ IF S = {} THEN ms.self_correction_rate = <<>>
              ELSE /\ ms.self_correction_rate # <<>>
                   /\ ms.self_correction_rate[1].den = Cardinality(S)
                   /\ ms.self_correction_rate[1].num
                      = Cardinality({i \in S : tr[i].self_correcting[1]})
           /\ IF P = {} THEN ms.brier = <<>> /\ ms.ece = <<>>
              ELSE /\ ms.brier # <<>> /\ ms.ece # <<>>
                   /\ ms.brier[1].den = 10000 * Cardinality(P)
                   /\ ms.brier[1].num = SumOver(P, [i \in P |-> err(i) * err(i)])
                   /\ ms.ece[1].den = 100 * Cardinality(P)
                   /\ ms.ece[1].num
                      = SumOver(0..9,
                                [b \in 0..9 |->
                                    LET B == {i \in P : InBin(tr[i].prob_correct[1], b)}
                                        d == SumOver(B, [i \in B |->
                                                 clamped(i)
                                                 - (IF tr[i].correct THEN 100 ELSE 0)])
                                    IN  IF d < 0 THEN 0 - d ELSE d])

\* evaluate has aggregated two tasks of which only the first has a
\* confidence and a token count and neither has a trace: Brier and the
\* token mean are those of the first task alone, the trace means are None
C28_Witness ==
    /\ metric.fn = "evaluate"
    /\ Len(metric.args[1]) = 2
    /\ metric.args[1][1].prob_correct = <<50>> /\ metric.args[1][2].prob_correct = <<>>
    /\ metric.args[1][1].total_tokens = <<7>> /\ metric.args[1][2].total_tokens = <<>>
    /\ PresentIn(metric.args[1], "cot_tokens") = {}
    /\ metric.result.brier = <<Ratio(2500, 10000)>>
    /\ metric.result.total_tokens_mean = <<Ratio(7, 1)>>
    /\ metric.result.cot_tokens_mean = <<>>
    /\ metric.result.self_correction_rate = <<>>

-----------------------------------------------------------------------------
(* C29 *)

\* two strings spell the same answer
SameAnswer(a, b) == \E S \in Spellings : a \in S /\ b \in S

\* C29: on empty lists or lists of different lengths accuracy returns 0 and
\* usr_v0 returns 1; on non-empty lists of one length accuracy is the
\* fraction of the entries whose prediction spells the target's answer, and
\* usr_v0 the fraction of the others.
C29_MetricDefaultsOnMalformedInput ==
    metric.fn \in {"accuracy", "usr_v0"}
    => LET predictions == metric.args[1]
           targets == metric.args[2]
           n == Len(predictions)
           right == {i \in 1..n : SameAnswer(predictions[i], targets[i])}
       IN  IF predictions = <<>> \/ Len(predictions) # Len(targets)
           THEN /\ metric.result.den > 0
                /\ metric.fn = "accuracy" => metric.result.num = 0
                /\ metric.fn = "usr_v0" => metric.result.num = metric.result.den
           ELSE /\ metric.result.den = n
                /\ metric.fn = "accuracy" => metric.result.num = Cardinality(right)
                /\ metric.fn = "usr_v0" => metric.result.num = n - Cardinality(right)

\* usr_v0 has been called with two predictions and one target and has
\* returned 1
C29_Witness ==
    /\ metric.fn = "usr_v0"
    /\ Len(metric.args[1]) = 2 /\ Len(metric.args[2]) = 1
    /\ SameAnswer(metric.args[1][1], metric.args[2][1])
    /\ metric.result = Ratio(1, 1)

-----------------------------------------------------------------------------
(* C30 *)

\* C30: latency_p95 returns None when no latency is present; otherwise it
\* returns one of the n values present, the one at index k of their
\* ascending order, k = ceil(0.95 n) - 1 kept within 0..n-1: at most k of
\* the values are smaller and more than k are not larger.  The ten values
\* 10..100 give 100, and [10, None, 30, None, 50] gives 50.
C30_LatencyP95IsAnOrderStatistic ==
    metric.fn = "latency_p95"
    => LET latencies == metric.args[1]
           P == {i \in 1..Len(latencies) : latencies[i] # <<>>}
           n == Cardinality(P)
           c == CHOOSE x \in 0..n : 100 * x >= 95 * n /\ 100 * (x - 1) < 95 * n
           k == IF c - 1 > n - 1 THEN n - 1 ELSE IF c - 1 < 0 THEN 0 ELSE c - 1
       IN  /\ IF P = {} THEN metric.result = <<>>
              ELSE /\ metric.result # <<>>
                   /\ \E i \in P : latencies[i][1] = metric.result[1]
                   /\ Cardinality({i \in P : latencies[i][1] < metric.result[1]}) <= k
                   /\ Cardinality({i \in P : latencies[i][1] <= metric.result[1]}) > k
           /\ latencies = [j \in 1..10 |-> <<10 * j>>] => metric.result = <<100>>
           /\ latencies = << <<10>>, <<>>, <<30>>, <<>>, <<50>> >> => metric.result = <<50>>

\* latency_p95 has been called with MaxLatencies different values, some
\* entries missing, the largest value first, and has returned the value
\* below the largest
C30_Witness ==
    /\ metric.fn = "latency_p95"
    /\ Len(metric.args[1]) = 2 * MaxLatencies
    /\ metric.args[1][1] = <<10 * MaxLatencies>>
    /\ metric.args[1][2] = <<>>
    /\ metric.result = <<10 * (MaxLatencies - 1)>>

-----------------------------------------------------------------------------
(* C31 *)

\* floor(num/den) for den > 0 and num >= 0
Floor(num, den) == CHOOSE k \in 0..num : k * den <= num /\ num < (k + 1) * den

\* the bin the claim gives to a probability p, in hundredths:
\* min(floor(clamp(p) * numBins), numBins - 1)
ClaimedBin(p) ==
    LET q == IF p < 0 THEN 0 ELSE IF p > 100 THEN 100 ELSE p
        f == Floor(q * 10, 100)
    IN  IF f < 9 THEN f ELSE 9

\* C31: expected_calibration_error_v2 puts every pair whose probability is
\* present, the probability clamped to [0,1], into the bin
\* min(floor(p * 10), 9): 1.0 and everything above into the last bin,
\* everything at or below 0 into the first.  Every such pair is in exactly
\* one of the ten bins, so the sizes of the bins add up to the number of
\* pairs and the weights to 1.
C31_EveryPairInOneBin ==
    (metric.fn = "expected_calibration_error_v2"
     /\ Len(metric.args[1]) = Len(metric.args[2]))
    => LET probs == metric.args[1]
           correct == metric.args[2]
           P == {i \in 1..Len(probs) : probs[i] # <<>>}
           B == bins(valid_pairs(probs, correct))
       IN  /\ Len(B) = 10
           /\ \A b \in 1..10 :
                 /\ Len(B[b]) = Cardinality({i \in P : ClaimedBin(probs[i][1]) = b - 1})
                 /\ \A j \in 1..Len(B[b]) :
                       /\ B[b][j][1] \in 0..100
                       /\ InBin(B[b][j][1], b - 1)
           /\ Len(B[10]) >= Cardinality({i \in P : probs[i][1] >= 100})
           /\ Len(B[1]) >= Cardinality({i \in P : probs[i][1] <= 0})
           /\ SumOver(1..10, [b \in 1..10 |-> Len(B[b])]) = Cardinality(P)
           /\ (metric.result = <<>>) <=> (P = {})
           /\ P # {} => metric.result[1].den = 100 * Cardinality(P)

\* the function has been called with the probabilities 1.0 for a right
\* answer and -0.5 for a wrong one: they are in the last and in the first
\* bin, and the error is 0
C31_Witness ==
    /\ metric.fn = "expected_calibration_error_v2"
    /\ metric.args = << << <<100>>, <<-50>> >>, <<TRUE, FALSE>> >>
    /\ Len(bins(valid_pairs(metric.args[1], metric.args[2]))[10]) = 1
    /\ Len(bins(valid_pairs(metric.args[1], metric.args[2]))[1]) = 1
    /\ metric.result = <<Ratio(0, 200)>>

-----------------------------------------------------------------------------
(* C32 *)

\* the fields of a TaskResult derived from the reasoning trace
DerivedFields == {"cot_tokens", "cot_chars", "step_count", "ra_ratio", "self_correcting"}

\* the trace is absent, or made of whitespace only
AbsentOrBlank(cot_text) ==
    cot_text = <<>> \/ \A j \in 1..Len(cot_text[1]) : cot_text[1][j] \in {" ", "\n"}

\* C32: in every TaskResult of evaluate the fields derived from the trace
\* are all None when the trace is absent or blank, and all defined when it
\* is present and not blank.
C32_DerivedFieldsAllOrNone ==
    metric.fn = "evaluate"
    => \A i \in 1..Len(metric.args[1]) :
          LET t == metric.args[1][i]
          IN  IF AbsentOrBlank(t.model_output.cot_text)
              THEN \A f \in DerivedFields : t[f] = <<>>
              ELSE \A f \in DerivedFields : t[f] # <<>>

\* evaluate has built two TaskResults: the first from a trace of whitespace
\* only, with no derived field, the second from a trace of two steps
C32_Witness ==
    /\ metric.fn = "evaluate"
    /\ Len(metric.args[1]) = 2
    /\ metric.args[1][1].model_output.cot_text = << <<" ", "\n">> >>
    /\ \A f \in DerivedFields : metric.args[1][1][f] = <<>>
    /\ metric.args[1][2].cot_tokens = <<4>>
    /\ metric.args[1][2].cot_chars = <<15>>
    /\ metric.args[1][2].step_count = <<2>>
    /\ metric.args[1][2].ra_ratio = <<Ratio(4, 1)>>
    /\ metric.args[1][2].self_correcting = <<TRUE>>

-----------------------------------------------------------------------------
(* C33 *)

\* subscriber s is in the list of run r
Attached(ws, s, r) == r \in DOMAIN ws /\ s \in Range(ws[r])

\* C33: a subscriber registered for a run id before create_run is called
\* with that id is still attached once create_run has registered the run
\* (and so is served by every later broadcast of the run).
C33_EarlySubscriberStaysAttached ==
    [][\A r \in ClientIds, s \in Subs :
          (/\ r \notin DOMAIN progress_state
           /\ r \in DOMAIN progress_state'
           /\ Attached(websockets, s, r))
          => Attached(websockets', s, r)]_vars

-----------------------------------------------------------------------------
(* C34 *)

\* the last element of a sequence that is not empty
Last(seq) == seq[Len(seq)]

\* this step delivers a message to subscriber s
Delivers(s) == recv'[s] # recv[s]

\* this step stores a state for run r
Stores(r) ==
    /\ r \in DOMAIN progress_state'
    /\ r \notin DOMAIN progress_state \/ progress_state'[r] # progress_state[r]

\* what is delivered to an attached subscriber is the state stored for its
\* run at that moment: no state of the past, none out of order
DeliversStoredState ==
    \A s \in Subs :
        Delivers(s) /\ Attached(websockets, s, conn[s].run)
        => /\ conn[s].run \in DOMAIN progress_state
           /\ Last(recv'[s]) = progress_state[conn[s].run]

\* when a state of a run is replaced, every subscriber that is attached and
\* whose sends have succeeded has received the state that is replaced, and
\* received it last: none is skipped
StoresAfterDelivery ==
    \A r \in RunIds, s \in Subs :
        (/\ Stores(r)
         /\ Attached(websockets, s, r) /\ Attached(websockets', s, r)
         /\ alive[s])
        => /\ r \in DOMAIN progress_state
           /\ recv[s] # <<>>
           /\ Last(recv[s]) = progress_state[r]

\* a subscriber has received no more messages than states were stored: each
\* call stores one state at most, and none is delivered twice
NoMoreThanStored == \A s \in Subs : Len(recv[s]) <= calls

\* C34: a subscriber receives the states of its run in the order in which
\* they were stored, the replay first and then every later state, none
\* skipped, duplicated or reordered, while it is attached and its sends
\* succeed.
C34_DeliveryFollowsStoredOrder ==
    /\ []NoMoreThanStored
    /\ [][DeliversStoredState /\ StoresAfterDelivery]_vars

\* a subscriber of a run has received the replay of the initial state, then
\* the state of an update, then the terminal state, and is still attached
C34_Witness ==
    \E s \in Subs, r \in RunIds :
        /\ Attached(websockets, s, r)
        /\ alive[s]
        /\ Len(recv[s]) = 3
        /\ recv[s][1].status = "running" /\ recv[s][1].completed_tasks = 0
        /\ recv[s][2].status = "running" /\ recv[s][2].completed_tasks = 1
        /\ recv[s][3].status = "done"
        /\ progress_state[r] = recv[s][3]
        /\ lockHolder = 0

-----------------------------------------------------------------------------
(* C35 *)

\* C35: while a send to a subscriber of one run has not returned, no
\* operation on another run (update_progress, complete_run, error_run,
\* register_websocket) is kept waiting for it.
C35_RunsDoNotWaitOnEachOther ==
    \A k \in Slots, j \in Slots :
        (/\ tasks[k].pc = "send"
         /\ lockHolder = k
         /\ tasks[j].pc = "wait_lock"
         /\ tasks[j].op \in {"update", "complete", "error", "register"})
        => tasks[j].run = tasks[k].run

-----------------------------------------------------------------------------
(* C36 *)

\* C36: cleanup_run called from another thread while update_progress,
\* complete_run or error_run of the same run is in progress does not bring
\* the run back: no step of a coroutine puts into the registry a run that
\* is not there, so that what cleanup_run has removed stays removed once
\* the operation is over.
C36_CleanupIsNotUndone ==
    [][\A r \in RunIds :
          (r \notin DOMAIN progress_state /\ r \in DOMAIN progress_state')
          => tasks' = tasks]_vars

-----------------------------------------------------------------------------
(* C37 *)

\* C37: when cleanup_run has removed the run while its broadcast was
\* suspended in a send, the pass, purge included, still ends without
\* raising.
C37_CleanupDuringBroadcastIsHarmless ==
    [][\A k \in Slots :
          (/\ tasks[k].op \in BroadcastOps
           /\ tasks[k].pc = "sent"
           /\ tasks'[k].pc = "done"
           /\ tasks[k].run \notin DOMAIN websockets)
          => tasks'[k].raised = "-"]_vars

-----------------------------------------------------------------------------
(* C38 *)

\* the event loop runs the coroutine at the head of its ready queue, the
\* handlers and the delayed cleanup included
HttpLoopRuns ==
    \E k \in Slots :
        \/ evaluate(k)
        \/ compare(k)
        \/ update_progress(k)
        \/ complete_run(k)
        \/ error_run(k)
        \/ register_websocket(k)
        \/ unregister_websocket(k)
        \/ cleanup_run_later(k)

\* a call of generate in its worker thread ends
GenerateEnds == \E k \in Slots, outcome \in {"ok", "raise"} : GenerateReturns(k, outcome)

\* The loop keeps running ready coroutines; generate and sends terminate; the
\* sleep of a scheduled cleanup ends.
SpecHttpFair ==
    /\ SpecHttp
    /\ WF_vars(HttpLoopRuns)
    /\ WF_vars(GenerateEnds)
    /\ WF_vars(SendEnds)
    /\ WF_vars(TimerFires)

\* the ids a run of the handlers can have
HandlerRunIds == ClientIds \cup {<<"uuid", i>> : i \in 1..MaxUuid}

\* C38: every run the evaluate and compare handlers create is eventually
\* removed from the registry, whether it ends with status done or with
\* status error.
C38_EveryRunIsRemoved ==
    \A r \in HandlerRunIds :
        (r \in DOMAIN progress_state) ~> (r \notin DOMAIN progress_state)

-----------------------------------------------------------------------------
(* C39 *)

\* the counts of a stored state are within their bounds (percentage in tenths)
WithinBounds(u) ==
    /\ 0 <= u.completed_tasks /\ u.completed_tasks <= u.total_tasks
    /\ 0 <= u.percentage /\ u.percentage <= 1000

\* C39: a run created by the evaluate or compare handler and driven through
\* the progress callback always has 0 <= completed_tasks <= total_tasks and
\* 0 <= percentage <= 100, and its total_tasks never changes.
C39_HandlerRunsStayWithinBounds ==
    /\ [](\A r \in DOMAIN progress_state : WithinBounds(progress_state[r]))
    /\ [][\A r \in DOMAIN progress_state \cap DOMAIN progress_state' :
             progress_state'[r].total_tasks = progress_state[r].total_tasks]_vars

\* a comparison of two models on two tasks is in its second model: three of
\* the four tasks are reported, 75.0 percent
C39_Witness ==
    /\ req.kind = "compare" /\ req.phase = "running"
    /\ req.nmodels = 2 /\ req.ntasks = 2 /\ req.model = 2
    /\ progress_state[req.run] = ProgressUpdate(req.run, 3, 4, 750, "running", <<>>)

-----------------------------------------------------------------------------
(* C40 *)

\* the number of task results whose correct flag is flag
CountCorrect(task_results, flag) ==
    Cardinality({i \in 1..Len(task_results) : task_results[i].correct = flag})

\* C40: in the result of evaluate the aggregates agree with the flags of the
\* task results: accuracy * total_tasks is the number of correct results,
\* USR * total_tasks the number of incorrect ones, and accuracy + USR = 1.
C40_AggregatesAgreeWithFlags ==
    metric.fn = "evaluate"
    => LET task_results == metric.args[1]
           total_tasks == Len(task_results)
           acc == metric.result.accuracy
           usr == metric.result.usr
       IN  /\ acc.num * total_tasks = CountCorrect(task_results, TRUE) * acc.den
           /\ usr.num * total_tasks = CountCorrect(task_results, FALSE) * usr.den
           /\ acc.num * usr.den + usr.num * acc.den = acc.den * usr.den

\* evaluate over two tasks: " A" is right for the target "a", "b" is wrong;
\* accuracy and USR are both one half
C40_Witness ==
    /\ metric.fn = "evaluate"
    /\ Len(metric.args[1]) = 2
    /\ metric.args[1][1].model_output.answer = <<" ", "A">>
    /\ metric.args[1][1].correct
    /\ metric.args[1][2].model_output.answer = <<"b">>
    /\ ~metric.args[1][2].correct
    /\ metric.result.accuracy = Ratio(1, 2)
    /\ metric.result.usr = Ratio(1, 2)

====
